---- MODULE Spec2Model ----
(***************************************************************************)
(* The blocking I2C master driver of tm4c123x-hal / tm4c129x-hal           *)
(* (src/tm4c123x-hal/src/i2c.rs, src/tm4c129x-hal/src/i2c.rs).             *)
(*                                                                         *)
(* Each of write, read and write_read is translated into the sequence of   *)
(* register accesses and busy_wait! polls its body performs for the given  *)
(* slice lengths; the state machine executes that sequence one register    *)
(* access at a time.  The value of every status-register (MCS) read and of *)
(* every data-register (MDR) read is chosen by the hardware, i.e. it is a  *)
(* nondeterministic input of the step that reads it.                       *)
(***************************************************************************)
EXTENDS Integers, Sequences, FiniteSets, TLC

(* ------------------------------ bounds --------------------------------- *)

\* longest byte slice / buffer passed to an operation
MaxLen == 3
\* most status reads of one poll that find the monitored flag still set
MaxSpin == 1

(* ------------------------------ inputs --------------------------------- *)

\* sample u8 slave addresses handed to the operations
Addrs == {80}
\* sample u8 values the data register returns when read
Byte == {17, 34}
\* the byte slices a caller may pass as `bytes` (pairwise distinct bytes)
ByteSeqs == {[i \in 1..n |-> 16 * i + 1] : n \in 0..MaxLen}
\* the buffers a caller may pass as `buffer` (zero filled)
Buffers == {[i \in 1..n |-> 0] : n \in 0..MaxLen}

Ops == {"write", "read", "write_read"}

(* --------------------------- register model --------------------------- *)

\* the bits of the MCS register read as status
StatusBits == {"error", "adrack", "datack", "arblst", "busy", "busbsy"}
Status == SUBSET StatusBits

\* the bits of the MCS register written as command
RUN == "run"
START == "start"
STOP == "stop"
ACK == "ack"

\* one register access (also: one instruction of an operation's body)
MsaWrite(a, receive) == [k |-> "msa_w", sa |-> a % 128, rs |-> receive]
MdrWrite(d) == [k |-> "mdr_w", data |-> d]
\* every data-register read stored into the first slot of the buffer
MdrReadFirstSlot(i) == [k |-> "mdr_r", slot |-> 1]
MdrRead(i) == [k |-> "mdr_r", slot |-> i]
\* a command-register write that leaves RUN clear
McsWriteNoRun(c) == [k |-> "mcs_w", bits |-> c \ {RUN}]
McsWrite(c) == [k |-> "mcs_w", bits |-> c]
BusyWait(f) == [k |-> "poll", flag |-> f]

\* the four error kinds an operation returns (Error::_Extensible is never built)
Errors == {"Bus", "Arbitration", "DataAck", "AdrAck"}

\* busy_wait! testing datack before adrack
BusyWaitStepDataFirst(mcs, flag) ==
    IF "error" \in mcs
    THEN IF "datack" \in mcs THEN "DataAck"
         ELSE IF "adrack" \in mcs THEN "AdrAck"
         ELSE "Bus"
    ELSE IF "arblst" \in mcs THEN "Arbitration"
    ELSE IF flag \notin mcs THEN "break"
    ELSE "continue"

\* busy_wait! testing the monitored flag before the error and arblst bits
BusyWaitStepFlagFirst(mcs, flag) ==
    IF flag \notin mcs THEN "break"
    ELSE IF "error" \in mcs
    THEN IF "adrack" \in mcs THEN "AdrAck"
         ELSE IF "datack" \in mcs THEN "DataAck"
         ELSE "Bus"
    ELSE IF "arblst" \in mcs THEN "Arbitration"
    ELSE "continue"

\* busy_wait! returning the hidden variant for an error with no ACK flag
BusyWaitStepExtensible(mcs, flag) ==
    IF "error" \in mcs
    THEN IF "adrack" \in mcs THEN "AdrAck"
         ELSE IF "datack" \in mcs THEN "DataAck"
         ELSE "_Extensible"
    ELSE IF "arblst" \in mcs THEN "Arbitration"
    ELSE IF flag \notin mcs THEN "break"
    ELSE "continue"

\* busy_wait!: what one iteration of the loop does with the status it read
BusyWaitStep(mcs, flag) ==
    IF "error" \in mcs
    THEN IF "adrack" \in mcs THEN "AdrAck"
         ELSE IF "datack" \in mcs THEN "DataAck"
         ELSE "Bus"
    ELSE IF "arblst" \in mcs THEN "Arbitration"
    ELSE IF flag \notin mcs THEN "break"
    ELSE "continue"

(* ----------------------- the operations' bodies ----------------------- *)

RECURSIVE WriteMiddleStop(_)
\* the middle loop of write issuing STOP with every byte
WriteMiddleStop(middle) ==
    IF middle = <<>> THEN <<>>
    ELSE <<BusyWait("busy"), MdrWrite(Head(middle)), McsWrite({RUN, STOP})>>
         \o WriteMiddleStop(Tail(middle))

RECURSIVE WriteMiddleCmdFirst(_)
\* the middle loop of write issuing the command before it writes the data
WriteMiddleCmdFirst(middle) ==
    IF middle = <<>> THEN <<>>
    ELSE <<BusyWait("busy"), McsWrite({RUN}), MdrWrite(Head(middle))>>
         \o WriteMiddleCmdFirst(Tail(middle))

RECURSIVE WriteMiddle(_)
\* write: for &byte in middle.iter() { busy_wait; mdr.write; mcs.write(run) }
WriteMiddle(middle) ==
    IF middle = <<>> THEN <<>>
    ELSE <<BusyWait("busy"), MdrWrite(Head(middle)), McsWrite({RUN})>>
         \o WriteMiddle(Tail(middle))

\* write issuing its first command without waiting for the bus to be free
WritePhaseNoBusPoll(bytes) ==
    IF Len(bytes) = 1
    THEN <<MdrWrite(bytes[1]), McsWrite({STOP, START, RUN})>>
    ELSE <<MdrWrite(bytes[1]), McsWrite({START, RUN})>>
         \o WriteMiddle(SubSeq(bytes, 2, Len(bytes) - 1))
         \o <<BusyWait("busy"), MdrWrite(bytes[Len(bytes)]), McsWrite({STOP, RUN})>>

\* write: match bytes { [byte] => .., [first, middle @ .., last] => .. }
WritePhase(bytes) ==
    IF Len(bytes) = 1
    THEN <<MdrWrite(bytes[1]), BusyWait("busbsy"), McsWrite({STOP, START, RUN})>>
    ELSE <<MdrWrite(bytes[1]), BusyWait("busbsy"), McsWrite({START, RUN})>>
         \o WriteMiddle(SubSeq(bytes, 2, Len(bytes) - 1))
         \o <<BusyWait("busy"), MdrWrite(bytes[Len(bytes)]), McsWrite({STOP, RUN})>>

\* write without its `if bytes.is_empty() { return Ok(()) }`
WriteBodyNoEmptyCheck(addr, bytes) ==
    <<MsaWrite(addr, FALSE)>>
    \o (IF bytes = <<>> THEN <<>> ELSE WritePhase(bytes))
    \o <<BusyWait("busy")>>

\* write(addr, bytes)
WriteBody(addr, bytes) ==
    IF bytes = <<>> THEN <<>>
    ELSE <<MsaWrite(addr, FALSE)>> \o WritePhase(bytes) \o <<BusyWait("busy")>>

RECURSIVE ReadMiddleReadFirst(_, _)
\* the middle loop of read taking the byte before it waits for the byte-step
ReadMiddleReadFirst(lo, hi) ==
    IF lo > hi THEN <<>>
    ELSE <<McsWrite({RUN, ACK}), MdrRead(lo), BusyWait("busy")>>
         \o ReadMiddleReadFirst(lo + 1, hi)

RECURSIVE ReadMiddle(_, _)
\* read: for byte in middle.iter_mut() { mcs.write(run|ack); busy_wait; mdr.read }
\* (slots lo..hi of the buffer)
ReadMiddle(lo, hi) ==
    IF lo > hi THEN <<>>
    ELSE <<McsWrite({RUN, ACK}), BusyWait("busy"), MdrRead(lo)>>
         \o ReadMiddle(lo + 1, hi)

\* read acknowledging the single byte of a one-slot buffer
ReadPhaseAckSingle(n) ==
    IF n = 1
    THEN <<McsWrite({RUN, START, STOP, ACK}), BusyWait("busy"), MdrRead(1)>>
    ELSE <<McsWrite({START, RUN, ACK}), BusyWait("busy"), MdrRead(1)>>
         \o ReadMiddle(2, n - 1)
         \o <<McsWrite({RUN, STOP}), BusyWait("busy"), MdrRead(n)>>

\* read: match buffer { [byte] => .., [first, middle @ .., last] => .. }, n = buffer.len()
ReadPhase(n) ==
    IF n = 1
    THEN <<McsWrite({RUN, START, STOP}), BusyWait("busy"), MdrRead(1)>>
    ELSE <<McsWrite({START, RUN, ACK}), BusyWait("busy"), MdrRead(1)>>
         \o ReadMiddle(2, n - 1)
         \o <<McsWrite({RUN, STOP}), BusyWait("busy"), MdrRead(n)>>

\* read issuing its first command without waiting for the bus to be free
ReadBodyNoBusPoll(addr, n) ==
    IF n = 0 THEN <<>>
    ELSE <<MsaWrite(addr, TRUE)>> \o ReadPhase(n)

\* read(addr, buffer), n = buffer.len()
ReadBody(addr, n) ==
    IF n = 0 THEN <<>>
    ELSE <<MsaWrite(addr, TRUE), BusyWait("busbsy")>> \o ReadPhase(n)

RECURSIVE SendRestNoPoll(_)
\* the send loop of write_read without its busy_wait!
SendRestNoPoll(rest) ==
    IF rest = <<>> THEN <<>>
    ELSE <<MdrWrite(Head(rest)), McsWrite({RUN})>>
         \o SendRestNoPoll(Tail(rest))

RECURSIVE SendRest(_)
\* write_read: for byte in send_rest.iter() { mdr.write; mcs.write(run); busy_wait }
SendRest(rest) ==
    IF rest = <<>> THEN <<>>
    ELSE <<MdrWrite(Head(rest)), McsWrite({RUN}), BusyWait("busy")>>
         \o SendRest(Tail(rest))

\* the outgoing phase of write_read writing its first byte after the bus-busy poll
SendPhaseDataAfterPoll(addr, bytes) ==
    <<MsaWrite(addr, FALSE), BusyWait("busbsy"), MdrWrite(bytes[1]),
      McsWrite({START, RUN}), BusyWait("busy")>>
    \o SendRest(Tail(bytes))

\* write_read, outgoing phase: [send_first, send_rest @ ..]
SendPhase(addr, bytes) ==
    <<MsaWrite(addr, FALSE), MdrWrite(bytes[1]), BusyWait("busbsy"),
      McsWrite({START, RUN}), BusyWait("busy")>>
    \o SendRest(Tail(bytes))

\* the incoming phase of write_read acknowledging its last byte too
RecvPhaseAckLast(n) ==
    IF n = 1
    THEN <<McsWrite({RUN, START, STOP}), BusyWait("busy"), MdrRead(1)>>
    ELSE <<McsWrite({RUN, START, ACK}), BusyWait("busy"), MdrRead(1)>>
         \o ReadMiddle(2, n - 1)
         \o <<McsWrite({RUN, STOP, ACK}), BusyWait("busy"), MdrRead(n)>>

\* the incoming phase of write_read without the repeated START
RecvPhaseNoStart(n) ==
    IF n = 1
    THEN <<McsWrite({RUN, STOP}), BusyWait("busy"), MdrRead(1)>>
    ELSE <<McsWrite({RUN, ACK}), BusyWait("busy"), MdrRead(1)>>
         \o ReadMiddle(2, n - 1)
         \o <<McsWrite({RUN, STOP}), BusyWait("busy"), MdrRead(n)>>

\* the incoming phase of write_read waiting for the bus to be free, as read does
RecvPhaseBusPoll(n) ==
    <<BusyWait("busbsy")>> \o
    (IF n = 1
     THEN <<McsWrite({RUN, START, STOP}), BusyWait("busy"), MdrRead(1)>>
     ELSE <<McsWrite({RUN, START, ACK}), BusyWait("busy"), MdrRead(1)>>
          \o ReadMiddle(2, n - 1)
          \o <<McsWrite({RUN, STOP}), BusyWait("busy"), MdrRead(n)>>)

\* write_read, incoming phase: match recv_rest { [] => .., [recv_middle @ .., recv_last] => .. },
\* n = 1 + recv_rest.len()
RecvPhase(n) ==
    IF n = 1
    THEN <<McsWrite({RUN, START, STOP}), BusyWait("busy"), MdrRead(1)>>
    ELSE <<McsWrite({RUN, START, ACK}), BusyWait("busy"), MdrRead(1)>>
         \o ReadMiddle(2, n - 1)
         \o <<McsWrite({RUN, STOP}), BusyWait("busy"), MdrRead(n)>>

\* write_read without the arm `(bytes, []) => self.write(addr, bytes)`: the
\* outgoing phase alone
WriteReadBodyNoWriteArm(addr, bytes, n) ==
    IF bytes = <<>> /\ n = 0 THEN <<>>
    ELSE IF n = 0 THEN SendPhase(addr, bytes)
    ELSE IF bytes = <<>> THEN ReadBody(addr, n)
    ELSE SendPhase(addr, bytes) \o <<MsaWrite(addr, TRUE)>> \o RecvPhase(n)

\* write_read(addr, bytes, buffer), n = buffer.len()
WriteReadBody(addr, bytes, n) ==
    IF bytes = <<>> /\ n = 0 THEN <<>>
    ELSE IF n = 0 THEN WriteBody(addr, bytes)
    ELSE IF bytes = <<>> THEN ReadBody(addr, n)
    ELSE SendPhase(addr, bytes) \o <<MsaWrite(addr, TRUE)>> \o RecvPhase(n)

\* the body an operation executes for its arguments
Body(o, addr, bytes, n) ==
    CASE o = "write" -> WriteBody(addr, bytes)
      [] o = "read" -> ReadBody(addr, n)
      [] o = "write_read" -> WriteReadBody(addr, bytes, n)
      [] OTHER -> <<>>

(* ------------------- the tm4c129x driver's bodies --------------------- *)

\* tm4c129x busy_wait! reporting arbitration loss as a bus error
BusyWaitStep129ArbAsBus(mcs, flag) ==
    IF "error" \in mcs
    THEN IF "adrack" \in mcs THEN "AdrAck"
         ELSE IF "datack" \in mcs THEN "DataAck"
         ELSE "Bus"
    ELSE IF "arblst" \in mcs THEN "Bus"
    ELSE IF flag \notin mcs THEN "break"
    ELSE "continue"

\* tm4c129x busy_wait!: what one iteration of the loop does with the status it read
BusyWaitStep129(mcs, flag) ==
    IF "error" \in mcs
    THEN IF "adrack" \in mcs THEN "AdrAck"
         ELSE IF "datack" \in mcs THEN "DataAck"
         ELSE "Bus"
    ELSE IF "arblst" \in mcs THEN "Arbitration"
    ELSE IF flag \notin mcs THEN "break"
    ELSE "continue"

RECURSIVE WriteMiddle129(_)
\* tm4c129x write: for &byte in middle.iter() { busy_wait; mdr.write; mcs.write(run) }
WriteMiddle129(middle) ==
    IF middle = <<>> THEN <<>>
    ELSE <<BusyWait("busy"), MdrWrite(Head(middle)), McsWrite({RUN})>>
         \o WriteMiddle129(Tail(middle))

\* tm4c129x write: match bytes { [byte] => .., [first, middle @ .., last] => .. }
WritePhase129(bytes) ==
    IF Len(bytes) = 1
    THEN <<MdrWrite(bytes[1]), BusyWait("busbsy"), McsWrite({STOP, START, RUN})>>
    ELSE <<MdrWrite(bytes[1]), BusyWait("busbsy"), McsWrite({START, RUN})>>
         \o WriteMiddle129(SubSeq(bytes, 2, Len(bytes) - 1))
         \o <<BusyWait("busy"), MdrWrite(bytes[Len(bytes)]), McsWrite({STOP, RUN})>>

\* tm4c129x write(addr, bytes)
WriteBody129(addr, bytes) ==
    IF bytes = <<>> THEN <<>>
    ELSE <<MsaWrite(addr, FALSE)>> \o WritePhase129(bytes) \o <<BusyWait("busy")>>

RECURSIVE ReadMiddle129(_, _)
\* tm4c129x read: for byte in middle.iter_mut() { mcs.write(run|ack); busy_wait; mdr.read }
ReadMiddle129(lo, hi) ==
    IF lo > hi THEN <<>>
    ELSE <<McsWrite({RUN, ACK}), BusyWait("busy"), MdrRead(lo)>>
         \o ReadMiddle129(lo + 1, hi)

\* tm4c129x read: match buffer { [byte] => .., [first, middle @ .., last] => .. }
ReadPhase129(n) ==
    IF n = 1
    THEN <<McsWrite({RUN, START, STOP}), BusyWait("busy"), MdrRead(1)>>
    ELSE <<McsWrite({START, RUN, ACK}), BusyWait("busy"), MdrRead(1)>>
         \o ReadMiddle129(2, n - 1)
         \o <<McsWrite({RUN, STOP}), BusyWait("busy"), MdrRead(n)>>

\* tm4c129x read(addr, buffer), n = buffer.len()
ReadBody129(addr, n) ==
    IF n = 0 THEN <<>>
    ELSE <<MsaWrite(addr, TRUE), BusyWait("busbsy")>> \o ReadPhase129(n)

RECURSIVE SendRest129(_)
\* tm4c129x write_read: for byte in send_rest.iter() { mdr.write; mcs.write(run); busy_wait }
SendRest129(rest) ==
    IF rest = <<>> THEN <<>>
    ELSE <<MdrWrite(Head(rest)), McsWrite({RUN}), BusyWait("busy")>>
         \o SendRest129(Tail(rest))

\* tm4c129x write_read, outgoing phase: [send_first, send_rest @ ..]
SendPhase129(addr, bytes) ==
    <<MsaWrite(addr, FALSE), MdrWrite(bytes[1]), BusyWait("busbsy"),
      McsWrite({START, RUN}), BusyWait("busy")>>
    \o SendRest129(Tail(bytes))

\* tm4c129x write_read, incoming phase: match recv_rest { .. }, n = 1 + recv_rest.len()
RecvPhase129(n) ==
    IF n = 1
    THEN <<McsWrite({RUN, START, STOP}), BusyWait("busy"), MdrRead(1)>>
    ELSE <<McsWrite({RUN, START, ACK}), BusyWait("busy"), MdrRead(1)>>
         \o ReadMiddle129(2, n - 1)
         \o <<McsWrite({RUN, STOP}), BusyWait("busy"), MdrRead(n)>>

\* tm4c129x write_read(addr, bytes, buffer), n = buffer.len()
WriteReadBody129(addr, bytes, n) ==
    IF bytes = <<>> /\ n = 0 THEN <<>>
    ELSE IF n = 0 THEN WriteBody129(addr, bytes)
    ELSE IF bytes = <<>> THEN ReadBody129(addr, n)
    ELSE SendPhase129(addr, bytes) \o <<MsaWrite(addr, TRUE)>> \o RecvPhase129(n)

\* the body a tm4c129x operation executes for its arguments
Body129(o, addr, bytes, n) ==
    CASE o = "write" -> WriteBody129(addr, bytes)
      [] o = "read" -> ReadBody129(addr, n)
      [] o = "write_read" -> WriteReadBody129(addr, bytes, n)
      [] OTHER -> <<>>

(* ------------------------------- state -------------------------------- *)

VARIABLES
    inflight,  \* the number of operations entered and not yet returned
    op,        \* the operation called last ("none" before the first call)
    addr,      \* its address argument
    bytes,     \* its `bytes` argument
    buffer,    \* its `buffer` argument (written in place)
    ip,        \* index in the body of the next instruction to execute
    wait,      \* "loop" inside the loop of a busy_wait!, else "none"
    spins,     \* status reads of the current poll that found the flag set (stops at MaxSpin)
    mcs,       \* the value of the last status read of the current poll
    result,    \* "none" while running, then "Ok" or the error kind
    log,       \* the register accesses of the operation, in order
    prev,      \* summary of the operation before the last one (SpecSeq only)
    cpc,       \* where the construction of the controller stands (i2c0 .. free)
    sysclk,    \* clocks.sysclk.0, the system clock in Hz
    freq,      \* freq.into().0, the requested bus frequency in Hz
    periph,    \* the peripheral handed to the constructor
    pins,      \* the (SCL, SDA) pair handed to the constructor
    mcr,       \* the configuration bits set in the master control register
    tpr,       \* the value passed to the TPR field of MTPR, -1 before that
    clog,      \* the register accesses of the constructor and of free, in order
    ret,       \* what free returned, <<>> before that
    rpc,       \* where a command and the poll that follows it stand (timed view)
    cyc,       \* clock cycles since the last command-register write
    lat,       \* cycles the hardware takes to raise busy for that command
    rd,        \* the cycle of the status read that let the poll return, -1 before
    call,      \* the call given to both drivers (side-by-side view)
    drv123,    \* the tm4c123x driver executing it: ip, wait, result, log, buffer
    drv129,    \* the tm4c129x driver executing it
    hwst,      \* what the status register last showed (hardware with sticky error bit)
    tim,       \* a timer: its registers, its stored timeout, its position in start/wait
    sc         \* the system control block during freeze: configuration, registers, result

\* the state of the construction
cvars == <<cpc, sysclk, freq, periph, pins, mcr, tpr, clog, ret>>
\* the state of the operations
ovars == <<inflight, op, addr, bytes, buffer, ip, wait, spins, mcs,
           result, log, prev>>

\* the state of the timed view of one command and its poll
tvars == <<rpc, cyc, lat, rd>>

vars == <<inflight, op, addr, bytes, buffer, ip, wait, spins, mcs,
          result, log, prev, cpc, sysclk, freq, periph, pins, mcr, tpr, clog, ret,
          rpc, cyc, lat, rd, call, drv123, drv129, hwst, tim, sc>>

\* the state of the views of the sticky status, the timer and the clock setup
xvars == <<hwst, tim, sc>>

\* no timer and no clock configuration in use
NoTimer == [pc |-> "none"]
NoFreeze == [pc |-> "none"]

\* nothing read from the status register, no timer, no clock setup
Apart ==
    /\ hwst = {}
    /\ tim = NoTimer
    /\ sc = NoFreeze

\* the state of the side-by-side view of the two drivers
pvars == <<call, drv123, drv129>>

\* a driver that has not been called
Idle == [ip |-> 1, wait |-> "none", result |-> "idle", log |-> <<>>, buffer |-> <<>>]

\* no call given to the pair of drivers yet
Unpaired ==
    /\ call = [op |-> "none", addr |-> 0, bytes |-> <<>>]
    /\ drv123 = Idle
    /\ drv129 = Idle

\* no command timed yet
Untimed ==
    /\ rpc = "idle"
    /\ cyc = 0
    /\ lat = 0
    /\ rd = -1

Prog == Body(op, addr, bytes, Len(buffer))

Running == inflight > 0 /\ result = "none"
Instr == Prog[ip]
AtInstr(kind) == Running /\ ip <= Len(Prog) /\ Instr.k = kind

\* the command-register writes of a log, in order
RECURSIVE Cmds(_)
Cmds(l) ==
    IF l = <<>> THEN <<>>
    ELSE IF Head(l).k = "mcs_w" THEN <<Head(l).bits>> \o Cmds(Tail(l))
    ELSE Cmds(Tail(l))

\* what prev keeps of a call: nothing but its failure when it returned an error,
\* else its kind, its slice lengths and the commands it issued
NoCall == [op |-> "none", nout |-> 0, nin |-> 0, ok |-> FALSE, cmds |-> <<>>]
Failed == [op |-> "failed", nout |-> 0, nin |-> 0, ok |-> FALSE, cmds |-> <<>>]
Summary ==
    IF op = "none" THEN NoCall
    ELSE IF result # "Ok" THEN Failed
    ELSE [op |-> op, nout |-> Len(bytes), nin |-> Len(buffer), ok |-> TRUE,
          cmds |-> Cmds(log)]

\* the controller as i2c0(I2C0, pins, 400 kHz, 80 MHz clocks) returns it
Constructed ==
    /\ cpc = "built"
    /\ sysclk = 80000000
    /\ freq = 400000
    /\ periph = "I2C0"
    /\ pins = "PB2_PB3"
    /\ mcr = {"mfe"}
    /\ tpr = 9
    /\ clog = <<>>
    /\ ret = <<>>

Init ==
    /\ inflight = 0
    /\ op = "none"
    /\ addr = 0
    /\ bytes = <<>>
    /\ buffer = <<>>
    /\ ip = 1
    /\ wait = "none"
    /\ spins = 0
    /\ mcs = {}
    /\ result = "none"
    /\ log = <<>>
    /\ prev = NoCall
    /\ Constructed
    /\ Untimed
    /\ Unpaired
    /\ Apart

(* ------------------------------ actions ------------------------------- *)

\* no exclusive borrow: a call can start while another one is in progress
ExclusiveNot == TRUE

\* `&mut self`: a call can start only while no other borrow of the controller is live
Exclusive == inflight = 0

\* a caller enters write, read or write_read
Enter(o, a, bs, buf) ==
    /\ Exclusive
    /\ inflight' = inflight + 1
    /\ op' = o
    /\ addr' = a
    /\ bytes' = IF o = "read" THEN <<>> ELSE bs
    /\ buffer' = IF o = "write" THEN <<>> ELSE buf
    /\ ip' = 1
    /\ wait' = "none"
    /\ spins' = 0
    /\ mcs' = {}
    /\ result' = "none"
    /\ log' = <<>>
    /\ UNCHANGED cvars
    /\ UNCHANGED tvars
    /\ UNCHANGED pvars
    /\ UNCHANGED xvars

\* a call; the summary of the call before it is not kept
Call(o, a, bs, buf) ==
    /\ Enter(o, a, bs, buf)
    /\ prev' = prev

\* a call that follows another one, whose summary is kept in prev
CallAfter(o, a, bs, buf) ==
    /\ Enter(o, a, bs, buf)
    /\ prev' = Summary

\* self.i2c.msa.write(..)
ExecMsaWrite ==
    /\ AtInstr("msa_w")
    /\ log' = Append(log, Instr)
    /\ ip' = ip + 1
    /\ UNCHANGED <<inflight, op, addr, bytes, buffer, wait, spins, mcs,
                   result, prev>>
    /\ UNCHANGED cvars
    /\ UNCHANGED tvars
    /\ UNCHANGED pvars
    /\ UNCHANGED xvars

\* self.i2c.mdr.write(..)
ExecMdrWrite ==
    /\ AtInstr("mdr_w")
    /\ log' = Append(log, Instr)
    /\ ip' = ip + 1
    /\ UNCHANGED <<inflight, op, addr, bytes, buffer, wait, spins, mcs,
                   result, prev>>
    /\ UNCHANGED cvars
    /\ UNCHANGED tvars
    /\ UNCHANGED pvars
    /\ UNCHANGED xvars

\* self.i2c.mcs.write(..)
ExecMcsWrite ==
    /\ AtInstr("mcs_w")
    /\ log' = Append(log, Instr)
    /\ ip' = ip + 1
    /\ UNCHANGED <<inflight, op, addr, bytes, buffer, wait, spins, mcs,
                   result, prev>>
    /\ UNCHANGED cvars
    /\ UNCHANGED tvars
    /\ UNCHANGED pvars
    /\ UNCHANGED xvars

\* busy_wait!: delay(2), then enter the loop
ExecDelay ==
    /\ AtInstr("poll")
    /\ wait = "none"
    /\ log' = Append(log, [k |-> "delay", flag |-> Instr.flag])
    /\ wait' = "loop"
    /\ spins' = 0
    /\ UNCHANGED <<inflight, op, addr, bytes, buffer, ip, mcs, result, prev>>
    /\ UNCHANGED cvars
    /\ UNCHANGED tvars
    /\ UNCHANGED pvars
    /\ UNCHANGED xvars

\* busy_wait! with a bounded number of status reads (gives up with Error::Bus)
AfterStatusTimeout(s) ==
    LET r == BusyWaitStep(s, Instr.flag) IN
    /\ mcs' = s
    /\ log' = log
    /\ CASE r = "continue" /\ spins < MaxSpin ->
              /\ spins' = spins + 1
              /\ UNCHANGED <<inflight, ip, wait, result>>
         [] r = "break" ->
              /\ ip' = ip + 1
              /\ wait' = "none"
              /\ spins' = 0
              /\ UNCHANGED <<inflight, result>>
         [] OTHER ->
              /\ result' = IF r = "continue" THEN "Bus" ELSE r
              /\ inflight' = inflight - 1
              /\ wait' = "none"
              /\ spins' = 0
              /\ UNCHANGED ip

\* busy_wait! releasing the bus with a STOP command before it returns the error
AfterStatusStop(s) ==
    LET r == BusyWaitStep(s, Instr.flag) IN
    /\ mcs' = s
    /\ CASE r = "continue" ->
              /\ spins' = IF spins < MaxSpin THEN spins + 1 ELSE spins
              /\ UNCHANGED <<inflight, ip, wait, result, log>>
         [] r = "break" ->
              /\ ip' = ip + 1
              /\ wait' = "none"
              /\ spins' = 0
              /\ UNCHANGED <<inflight, result, log>>
         [] OTHER ->
              /\ log' = Append(log, McsWrite({STOP}))
              /\ result' = r
              /\ inflight' = inflight - 1
              /\ wait' = "none"
              /\ spins' = 0
              /\ UNCHANGED ip

\* busy_wait! with delay(2) inside the loop, run again before each further read
AfterStatusDelayAgain(s) ==
    LET r == BusyWaitStep(s, Instr.flag) IN
    /\ mcs' = s
    /\ CASE r = "continue" ->
              /\ log' = Append(log, [k |-> "delay", flag |-> Instr.flag])
              /\ spins' = IF spins < MaxSpin THEN spins + 1 ELSE spins
              /\ UNCHANGED <<inflight, ip, wait, result>>
         [] r = "break" ->
              /\ log' = log
              /\ ip' = ip + 1
              /\ wait' = "none"
              /\ spins' = 0
              /\ UNCHANGED <<inflight, result>>
         [] OTHER ->
              /\ log' = log
              /\ result' = r
              /\ inflight' = inflight - 1
              /\ wait' = "none"
              /\ spins' = 0
              /\ UNCHANGED ip

\* busy_wait! with `continue` where it has `break`: it goes on reading the status
AfterStatusKeepPolling(s) ==
    LET r == BusyWaitStep(s, Instr.flag) IN
    /\ mcs' = s
    /\ log' = log
    /\ CASE r \in {"continue", "break"} ->
              /\ spins' = IF spins < MaxSpin THEN spins + 1 ELSE spins
              /\ UNCHANGED <<inflight, ip, wait, result>>
         [] OTHER ->
              /\ result' = r
              /\ inflight' = inflight - 1
              /\ wait' = "none"
              /\ spins' = 0
              /\ UNCHANGED ip

\* what the loop of busy_wait! does after a status read of value s
AfterStatus(s) ==
    LET r == BusyWaitStep(s, Instr.flag) IN
    /\ mcs' = s
    /\ log' = log
    /\ CASE r = "continue" ->
              /\ spins' = IF spins < MaxSpin THEN spins + 1 ELSE spins
              /\ UNCHANGED <<inflight, ip, wait, result>>
         [] r = "break" ->
              /\ ip' = ip + 1
              /\ wait' = "none"
              /\ spins' = 0
              /\ UNCHANGED <<inflight, result>>
         [] OTHER ->
              /\ result' = r
              /\ inflight' = inflight - 1
              /\ wait' = "none"
              /\ spins' = 0
              /\ UNCHANGED ip

\* busy_wait!: one iteration of the loop, let mcs = $i2c.mcs.read()
ExecStatusRead ==
    /\ AtInstr("poll")
    /\ wait = "loop"
    /\ \E s \in Status : AfterStatus(s)
    /\ UNCHANGED <<op, addr, bytes, buffer, prev>>
    /\ UNCHANGED cvars
    /\ UNCHANGED tvars
    /\ UNCHANGED pvars
    /\ UNCHANGED xvars

\* *byte = self.i2c.mdr.read().data().bits()
ExecMdrRead ==
    /\ AtInstr("mdr_r")
    /\ \E d \in Byte :
          /\ buffer' = [buffer EXCEPT ![Instr.slot] = d]
          /\ log' = Append(log, [k |-> "mdr_r", data |-> d])
    /\ ip' = ip + 1
    /\ mcs' = {}
    /\ UNCHANGED <<inflight, op, addr, bytes, wait, spins, result, prev>>
    /\ UNCHANGED cvars
    /\ UNCHANGED tvars
    /\ UNCHANGED pvars
    /\ UNCHANGED xvars

\* Ok(()) at the end of the body (and the early return for empty slices)
ReturnOk ==
    /\ Running
    /\ ip > Len(Prog)
    /\ result' = "Ok"
    /\ inflight' = inflight - 1
    /\ mcs' = {}
    /\ UNCHANGED <<op, addr, bytes, buffer, ip, wait, spins, log, prev>>
    /\ UNCHANGED cvars
    /\ UNCHANGED tvars
    /\ UNCHANGED pvars
    /\ UNCHANGED xvars

\* one step of the operation in progress
Step ==
    \/ ExecMsaWrite
    \/ ExecMdrWrite
    \/ ExecMcsWrite
    \/ ExecDelay
    \/ ExecStatusRead
    \/ ExecMdrRead
    \/ ReturnOk

Next ==
    \/ \E o \in Ops, a \in Addrs, bs \in ByteSeqs, buf \in Buffers : Call(o, a, bs, buf)
    \/ Step

Spec == Init /\ [][Next]_vars

\* a status read for which the hardware has cleared the monitored busy bit or
\* set the error or the arbitration-loss bit
HwSettled ==
    /\ ExecStatusRead
    /\ (Instr.flag \notin mcs' \/ "error" \in mcs' \/ "arblst" \in mcs')

\* the operations on hardware that settles every byte-step: a call in progress
\* keeps executing, and each of its polls gets a settled status in the end
SpecLive == Spec /\ WF_vars(Step) /\ WF_vars(HwSettled)

NextSeq ==
    \/ \E o \in Ops, a \in Addrs, bs \in ByteSeqs, buf \in Buffers :
          CallAfter(o, a, bs, buf)
    \/ Step

\* the same machine, remembering the call before the current one
SpecSeq == Init /\ [][NextSeq]_vars

(* ------------------- construction and release ------------------------- *)

\* sample system clocks (clocks.sysclk.0) and requested bus frequencies, in Hz;
\* all below 2^32 / 20, so that 2*10*freq does not wrap
SysClocks == {16000000, 30000000, 80000000}
Freqs == {0, 10000, 100000, 400000, 1000000, 5000000}
\* the peripherals of hal! and sample pin pairs
Periphs == {"I2C0", "I2C1"}
PinPairs == {"PB2_PB3", "PA6_PA7"}
\* the configuration bits of the master control register
McrBits == {"lpbk", "mfe", "sfe", "gfe"}

\* i2c.mcr.modify(..) instead of write(..): keeps the bits the register holds
McrModified(old) == old \cup {"mfe"}

\* i2c.mcr.write(|w| w.mfe().set_bit()): the value the register gets
McrWritten(old) == {"mfe"}

\* the timing value without the cast `as u8`
TprWide(clk, f) == (clk \div (2 * 10 * f)) - 1

\* ((clocks.sysclk.0/(2*10*freq))-1) as u8, for freq > 0, where the
\* subtraction wraps
Tpr(clk, f) == ((clk \div (2 * 10 * f)) - 1) % 256

\* the constructor going on to the register writes without sysctl::reset
ControlPowerNoReset ==
    /\ cpc = "start"
    /\ cpc' = "reset"
    /\ clog' = Append(clog, [k |-> "rcgci2c"])
    /\ UNCHANGED <<sysclk, freq, periph, pins, mcr, tpr, ret>>
    /\ UNCHANGED ovars
    /\ UNCHANGED tvars
    /\ UNCHANGED pvars
    /\ UNCHANGED xvars

\* sysctl::control_power(pc, Domain::I2cX, RunMode::Run, PowerState::On)
ControlPower ==
    /\ cpc = "start"
    /\ cpc' = "powered"
    /\ clog' = Append(clog, [k |-> "rcgci2c"])
    /\ UNCHANGED <<sysclk, freq, periph, pins, mcr, tpr, ret>>
    /\ UNCHANGED ovars
    /\ UNCHANGED tvars
    /\ UNCHANGED pvars
    /\ UNCHANGED xvars

\* sysctl::reset(pc, Domain::I2cX); what the registers hold afterwards is left open
Reset ==
    /\ cpc = "powered"
    /\ cpc' = "reset"
    /\ clog' = Append(clog, [k |-> "sri2c"])
    /\ mcr' \in SUBSET McrBits
    /\ UNCHANGED <<sysclk, freq, periph, pins, tpr, ret>>
    /\ UNCHANGED ovars
    /\ UNCHANGED tvars
    /\ UNCHANGED pvars
    /\ UNCHANGED xvars

\* i2c.mcr.write(|w| w.mfe().set_bit())
McrWrite ==
    /\ cpc = "reset"
    /\ cpc' = "mcr"
    /\ mcr' = McrWritten(mcr)
    /\ clog' = Append(clog, [k |-> "mcr_w", old |-> mcr])
    /\ UNCHANGED <<sysclk, freq, periph, pins, tpr, ret>>
    /\ UNCHANGED ovars
    /\ UNCHANGED tvars
    /\ UNCHANGED pvars
    /\ UNCHANGED xvars

\* let tpr = ((clocks.sysclk.0/(2*10*freq))-1) as u8; i2c.mtpr.write(..):
\* the division panics for freq = 0; the subtraction of 1 from a zero quotient
\* panics in a build with overflow checks and wraps in one without
MtprWrite ==
    /\ cpc = "mcr"
    /\ \/ /\ freq = 0
          /\ cpc' = "panic"
          /\ UNCHANGED <<tpr, clog>>
       \/ /\ freq # 0
          /\ sysclk \div (2 * 10 * freq) = 0
          /\ cpc' = "panic"
          /\ UNCHANGED <<tpr, clog>>
       \/ /\ freq # 0
          /\ cpc' = "mtpr"
          /\ tpr' = Tpr(sysclk, freq)
          /\ clog' = Append(clog, [k |-> "mtpr_w"])
    /\ UNCHANGED <<sysclk, freq, periph, pins, mcr, ret>>
    /\ UNCHANGED ovars
    /\ UNCHANGED tvars
    /\ UNCHANGED pvars
    /\ UNCHANGED xvars

\* I2c { i2c, pins }
Build ==
    /\ cpc = "mtpr"
    /\ cpc' = "built"
    /\ UNCHANGED <<sysclk, freq, periph, pins, mcr, tpr, clog, ret>>
    /\ UNCHANGED ovars
    /\ UNCHANGED tvars
    /\ UNCHANGED pvars
    /\ UNCHANGED xvars

\* free disabling the master function before it gives the peripheral back
FreeDisabling ==
    /\ cpc = "built"
    /\ cpc' = "freed"
    /\ ret' = <<periph, pins>>
    /\ mcr' = {}
    /\ clog' = Append(clog, [k |-> "mcr_w", old |-> mcr])
    /\ UNCHANGED <<sysclk, freq, periph, pins, tpr>>
    /\ UNCHANGED ovars
    /\ UNCHANGED tvars
    /\ UNCHANGED pvars
    /\ UNCHANGED xvars

\* free(self) -> (self.i2c, self.pins)
Free ==
    /\ cpc = "built"
    /\ cpc' = "freed"
    /\ ret' = <<periph, pins>>
    /\ UNCHANGED <<sysclk, freq, periph, pins, mcr, tpr, clog>>
    /\ UNCHANGED ovars
    /\ UNCHANGED tvars
    /\ UNCHANGED pvars
    /\ UNCHANGED xvars

\* before i2c0 is called: any clock, frequency, peripheral, pins and register content
InitNew ==
    /\ inflight = 0
    /\ op = "none"
    /\ addr = 0
    /\ bytes = <<>>
    /\ buffer = <<>>
    /\ ip = 1
    /\ wait = "none"
    /\ spins = 0
    /\ mcs = {}
    /\ result = "none"
    /\ log = <<>>
    /\ prev = NoCall
    /\ cpc = "start"
    /\ sysclk \in SysClocks
    /\ freq \in Freqs
    /\ periph \in Periphs
    /\ pins \in PinPairs
    /\ mcr \in SUBSET McrBits
    /\ tpr = -1
    /\ clog = <<>>
    /\ ret = <<>>
    /\ Untimed
    /\ Unpaired
    /\ Apart

NextNew ==
    \/ ControlPower
    \/ Reset
    \/ McrWrite
    \/ MtprWrite
    \/ Build
    \/ Free

\* i2c0 .. i2c3 and free
SpecNew == InitNew /\ [][NextNew]_vars

(* ------------- a command and its poll, with clock cycles -------------- *)

\* delay(2): the cycles asked of cortex_m::asm::delay, which blocks for at least
\* that many
DelayCycles == 2
\* "it can take up to 8 clock cycles for the `run` to begin"
BusyLatency == 8
\* the most cycles a delay(2) and one iteration of the loop are given here
MaxDelay == 9
MaxLoop == 2
\* the cycle count stops here
MaxClk == 12

\* what the status register shows c cycles after the command: before the
\* hardware has raised busy still the idle status of the step before, then
\* busy, and at some point the outcome of the step
StatusAt(c) ==
    IF c < lat THEN {{}}
    ELSE {{"busy"}, {}, {"error", "datack"}, {"arblst"}}

\* self.i2c.mcs.write(..): the command is written, the hardware will raise busy
\* within BusyLatency cycles
RaceCommand ==
    /\ rpc \in {"idle", "next"}
    /\ rpc' = "delay"
    /\ cyc' = 0
    /\ lat' \in 1..BusyLatency
    /\ rd' = -1
    /\ UNCHANGED ovars
    /\ UNCHANGED cvars
    /\ UNCHANGED pvars
    /\ UNCHANGED xvars

\* busy_wait!: delay(2)
RaceDelay ==
    /\ rpc = "delay"
    /\ rpc' = "loop"
    /\ \E d \in DelayCycles..MaxDelay : cyc' = cyc + d
    /\ UNCHANGED <<lat, rd>>
    /\ UNCHANGED ovars
    /\ UNCHANGED cvars
    /\ UNCHANGED pvars
    /\ UNCHANGED xvars

\* busy_wait!(busy): one iteration of the loop, cyc cycles after the command
RaceStatusRead ==
    /\ rpc = "loop"
    /\ \E s \in StatusAt(cyc) :
          LET r == BusyWaitStep(s, "busy") IN
          CASE r = "continue" ->
                 /\ \E d \in 1..MaxLoop :
                       cyc' = IF cyc + d > MaxClk THEN MaxClk ELSE cyc + d
                 /\ UNCHANGED <<rpc, rd>>
            [] r = "break" ->
                 /\ rpc' = "next"
                 /\ rd' = cyc
                 /\ UNCHANGED cyc
            [] OTHER ->
                 /\ rpc' = "idle"
                 /\ UNCHANGED <<cyc, rd>>
    /\ UNCHANGED lat
    /\ UNCHANGED ovars
    /\ UNCHANGED cvars
    /\ UNCHANGED pvars
    /\ UNCHANGED xvars

NextRace ==
    \/ RaceCommand
    \/ RaceDelay
    \/ RaceStatusRead

\* a constructed controller issuing commands, each followed by a busy poll
SpecRace == Init /\ [][NextRace]_vars

(* --------------- the two drivers given the same call ------------------ *)

\* the flag the driver's poll monitors, when its next instruction is a poll
PollFlag(body, m) ==
    IF m.ip <= Len(body) /\ body[m.ip].k = "poll" THEN body[m.ip].flag ELSE "busy"

\* one step of a driver executing `body`, where r is what its busy_wait! makes
\* of the status a status read returns and d what a data-register read returns
Advance(body, m, r, d) ==
    IF m.result # "none" THEN m
    ELSE IF m.ip > Len(body) THEN [m EXCEPT !.result = "Ok"]
    ELSE LET i == body[m.ip] IN
         CASE i.k \in {"msa_w", "mdr_w", "mcs_w"} ->
                [m EXCEPT !.log = Append(@, i), !.ip = @ + 1]
           [] i.k = "poll" /\ m.wait = "none" ->
                [m EXCEPT !.log = Append(@, [k |-> "delay", flag |-> i.flag]),
                          !.wait = "loop"]
           [] i.k = "poll" /\ m.wait = "loop" ->
                CASE r = "continue" -> m
                  [] r = "break" -> [m EXCEPT !.ip = @ + 1, !.wait = "none"]
                  [] OTHER -> [m EXCEPT !.result = r, !.wait = "none"]
           [] i.k = "mdr_r" ->
                [m EXCEPT !.buffer[i.slot] = d,
                          !.log = Append(@, [k |-> "mdr_r", data |-> d]),
                          !.ip = @ + 1]

\* the same call given to a tm4c123x and to a tm4c129x controller
PairCall ==
    /\ drv123.result # "none"
    /\ drv129.result # "none"
    /\ \E o \in Ops, a \in Addrs, bs \in ByteSeqs, buf \in Buffers :
          /\ call' = [op |-> o, addr |-> a, bytes |-> IF o = "read" THEN <<>> ELSE bs]
          /\ drv123' = [Idle EXCEPT !.result = "none",
                                    !.buffer = IF o = "write" THEN <<>> ELSE buf]
          /\ drv129' = drv123'
    /\ UNCHANGED ovars
    /\ UNCHANGED cvars
    /\ UNCHANGED tvars
    /\ UNCHANGED xvars

\* both drivers take their next step, their reads returning the same values
PairStep ==
    /\ \E s \in Status, d \in Byte :
          LET body123 == Body(call.op, call.addr, call.bytes, Len(drv123.buffer))
              body129 == Body129(call.op, call.addr, call.bytes, Len(drv129.buffer))
          IN  /\ drv123' = Advance(body123, drv123,
                                   BusyWaitStep(s, PollFlag(body123, drv123)), d)
              /\ drv129' = Advance(body129, drv129,
                                   BusyWaitStep129(s, PollFlag(body129, drv129)), d)
    /\ (drv123' # drv123 \/ drv129' # drv129)
    /\ UNCHANGED call
    /\ UNCHANGED ovars
    /\ UNCHANGED cvars
    /\ UNCHANGED tvars
    /\ UNCHANGED xvars

NextPair ==
    \/ PairCall
    \/ PairStep

\* a tm4c123x and a tm4c129x controller side by side
SpecPair == Init /\ [][NextPair]_vars

(* ------------- the driver on hardware with a sticky error bit --------- *)

\* the body of the call the driver is executing
StickyBody == Body(call.op, call.addr, call.bytes, Len(drv123.buffer))

\* the driver is about to read the status in the loop of a poll
StickyInPoll ==
    /\ drv123.result = "none"
    /\ drv123.ip <= Len(StickyBody)
    /\ StickyBody[drv123.ip].k = "poll"
    /\ drv123.wait = "loop"

\* the driver is about to write the command register
StickyAtCommand ==
    /\ drv123.result = "none"
    /\ drv123.ip <= Len(StickyBody)
    /\ StickyBody[drv123.ip].k = "mcs_w"

\* a call of write, read or write_read; `after` tells whether the error bit was
\* set when it was made
StickyCall ==
    /\ drv123.result # "none"
    /\ \E o \in Ops, a \in Addrs, bs \in ByteSeqs, buf \in Buffers :
          /\ call' = [op |-> o, addr |-> a, bytes |-> IF o = "read" THEN <<>> ELSE bs,
                      after |-> "error" \in hwst]
          /\ drv123' = [Idle EXCEPT !.result = "none",
                                    !.buffer = IF o = "write" THEN <<>> ELSE buf]
    /\ UNCHANGED <<drv129, hwst, tim, sc>>
    /\ UNCHANGED ovars
    /\ UNCHANGED cvars
    /\ UNCHANGED tvars

\* one step of the driver; the hardware keeps the error bit set from the status
\* read that showed it until the next command-register write
StickyStep ==
    /\ \E s \in Status, d \in Byte :
          /\ "error" \in hwst => "error" \in s
          /\ drv123' = Advance(StickyBody, drv123,
                               BusyWaitStep(s, PollFlag(StickyBody, drv123)), d)
          /\ hwst' = IF StickyInPoll THEN s
                     ELSE IF StickyAtCommand THEN {}
                     ELSE hwst
    /\ (drv123' # drv123 \/ hwst' # hwst)
    /\ UNCHANGED <<call, drv129, tim, sc>>
    /\ UNCHANGED ovars
    /\ UNCHANGED cvars
    /\ UNCHANGED tvars

NextSticky ==
    \/ StickyCall
    \/ StickyStep

\* a controller in use on hardware whose error bit stays set until a command
SpecSticky == Init /\ [][NextSticky]_vars

(* ------------------------------ the timer ----------------------------- *)

\* sample system clocks (clocks.sysclk.0) and timeouts (Hertz), in Hz
TimerClocks == {16000000, 80000000}
Timeouts == {0, 1, 1000, 3000000}
\* the bits of the timer's control register the driver names
CtlBits == {"taen", "tben", "tastall"}

\* a timer peripheral before timer0 is called: any control bits, flag set or not
TimerBefore ==
    {[pc |-> "new", sysclk |-> c, req |-> t, ctl |-> b, ris |-> f, fired |-> f,
      timeout |-> -1, log |-> <<>>, ret |-> "none"] :
        c \in TimerClocks, t \in Timeouts, b \in SUBSET CtlBits, f \in BOOLEAN}

\* start setting both enable bits
CtlEnabledBoth(ctl) == ctl \cup {"taen", "tben"}

\* self.tim.ctl.modify(|_, w| w.taen().clear_bit().tben().clear_bit())
CtlDisabled(ctl) == ctl \ {"taen", "tben"}

\* self.tim.ctl.modify(|_, w| w.taen().set_bit())
CtlEnabled(ctl) == ctl \cup {"taen"}

\* let ticks = self.clocks.sysclk.0 / frequency, for frequency > 0
Ticks(c, f) == c \div f

\* timer0(tim, timeout, pc, clocks) up to its call of start: power up, reset,
\* ctl.write (stop, stall), cfg.write, tamr.write, Timer { timeout: 0.hz() }
TimerNew ==
    /\ tim.pc = "new"
    /\ tim' = [tim EXCEPT !.pc = "start",
                          !.ctl = {"tastall"},
                          !.ris = FALSE,
                          !.fired = FALSE,
                          !.timeout = 0,
                          !.log = <<>>]
    /\ UNCHANGED <<hwst, sc>>
    /\ UNCHANGED ovars
    /\ UNCHANGED cvars
    /\ UNCHANGED tvars
    /\ UNCHANGED pvars

\* a call of start(timeout)
StartCall ==
    /\ tim.pc = "idle"
    /\ \E t \in Timeouts :
          tim' = [tim EXCEPT !.pc = "start", !.req = t, !.log = <<>>, !.ret = "none"]
    /\ UNCHANGED <<hwst, sc>>
    /\ UNCHANGED ovars
    /\ UNCHANGED cvars
    /\ UNCHANGED tvars
    /\ UNCHANGED pvars

\* start: the timer is disabled and the timeout stored
StartDisable ==
    /\ tim.pc = "start"
    /\ tim' = [tim EXCEPT !.pc = "ticks",
                          !.ctl = CtlDisabled(@),
                          !.timeout = tim.req,
                          !.log = Append(@, [k |-> "ctl_m", bits |-> CtlDisabled(tim.ctl)])]
    /\ UNCHANGED <<hwst, sc>>
    /\ UNCHANGED ovars
    /\ UNCHANGED cvars
    /\ UNCHANGED tvars
    /\ UNCHANGED pvars

\* start: let ticks = ..; self.tim.tav.write(..); the division panics for 0 Hz
StartTav ==
    /\ tim.pc = "ticks"
    /\ IF tim.timeout = 0
       THEN tim' = [tim EXCEPT !.pc = "panic"]
       ELSE tim' = [tim EXCEPT !.pc = "tailr",
                               !.log = Append(@, [k |-> "tav_w",
                                                  bits |-> Ticks(tim.sysclk, tim.timeout)])]
    /\ UNCHANGED <<hwst, sc>>
    /\ UNCHANGED ovars
    /\ UNCHANGED cvars
    /\ UNCHANGED tvars
    /\ UNCHANGED pvars

\* start: self.tim.tailr.write(|w| unsafe { w.bits(ticks) })
StartTailr ==
    /\ tim.pc = "tailr"
    /\ tim' = [tim EXCEPT !.pc = "enable",
                          !.log = Append(@, [k |-> "tailr_w",
                                             bits |-> Ticks(tim.sysclk, tim.timeout)])]
    /\ UNCHANGED <<hwst, sc>>
    /\ UNCHANGED ovars
    /\ UNCHANGED cvars
    /\ UNCHANGED tvars
    /\ UNCHANGED pvars

\* start: the counter is started
StartEnable ==
    /\ tim.pc = "enable"
    /\ tim' = [tim EXCEPT !.pc = "idle",
                          !.ctl = CtlEnabled(@),
                          !.log = Append(@, [k |-> "ctl_m", bits |-> CtlEnabled(tim.ctl)])]
    /\ UNCHANGED <<hwst, sc>>
    /\ UNCHANGED ovars
    /\ UNCHANGED cvars
    /\ UNCHANGED tvars
    /\ UNCHANGED pvars

\* a call of wait()
WaitCall ==
    /\ tim.pc = "idle"
    /\ tim' = [tim EXCEPT !.pc = "wait", !.log = <<>>, !.ret = "none"]
    /\ UNCHANGED <<hwst, sc>>
    /\ UNCHANGED ovars
    /\ UNCHANGED cvars
    /\ UNCHANGED tvars
    /\ UNCHANGED pvars

\* wait returning Ok whatever the flag shows
WaitReadAlwaysOk ==
    /\ tim.pc = "wait"
    /\ tim' = [tim EXCEPT !.pc = "clear"]
    /\ UNCHANGED <<hwst, sc>>
    /\ UNCHANGED ovars
    /\ UNCHANGED cvars
    /\ UNCHANGED tvars
    /\ UNCHANGED pvars

\* wait: if self.tim.ris.read().tatoris().bit_is_set() { .. } else { Err(WouldBlock) }
WaitRead ==
    /\ tim.pc = "wait"
    /\ IF tim.ris
       THEN tim' = [tim EXCEPT !.pc = "clear"]
       ELSE tim' = [tim EXCEPT !.pc = "idle", !.ret = "WouldBlock"]
    /\ UNCHANGED <<hwst, sc>>
    /\ UNCHANGED ovars
    /\ UNCHANGED cvars
    /\ UNCHANGED tvars
    /\ UNCHANGED pvars

\* wait: Ok(self.tim.icr.write(|w| w.tatocint().set_bit())); the write clears
\* the raw time-out flag
WaitClear ==
    /\ tim.pc = "clear"
    /\ tim' = [tim EXCEPT !.pc = "idle",
                          !.ret = "Ok",
                          !.ris = FALSE,
                          !.fired = FALSE,
                          !.log = Append(@, [k |-> "icr_w", bits |-> {"tatocint"}])]
    /\ UNCHANGED <<hwst, sc>>
    /\ UNCHANGED ovars
    /\ UNCHANGED cvars
    /\ UNCHANGED tvars
    /\ UNCHANGED pvars

\* free: self.tim.ctl.write(|w| w.taen().clear_bit().tben().clear_bit())
TimerFree ==
    /\ tim.pc = "idle"
    /\ tim' = [tim EXCEPT !.pc = "freed",
                          !.ctl = {},
                          !.log = <<[k |-> "ctl_w", bits |-> {}]>>]
    /\ UNCHANGED <<hwst, sc>>
    /\ UNCHANGED ovars
    /\ UNCHANGED cvars
    /\ UNCHANGED tvars
    /\ UNCHANGED pvars

\* the hardware: the enabled timer counts down to zero and raises the time-out flag
HwTimeout ==
    /\ tim.pc \notin {"new", "none"}
    /\ "taen" \in tim.ctl
    /\ tim' = [tim EXCEPT !.ris = TRUE, !.fired = TRUE]
    /\ tim' # tim
    /\ UNCHANGED <<hwst, sc>>
    /\ UNCHANGED ovars
    /\ UNCHANGED cvars
    /\ UNCHANGED tvars
    /\ UNCHANGED pvars

\* Init with a timer peripheral about to be handed to timer0
InitTimer ==
    /\ inflight = 0
    /\ op = "none"
    /\ addr = 0
    /\ bytes = <<>>
    /\ buffer = <<>>
    /\ ip = 1
    /\ wait = "none"
    /\ spins = 0
    /\ mcs = {}
    /\ result = "none"
    /\ log = <<>>
    /\ prev = NoCall
    /\ Constructed
    /\ Untimed
    /\ Unpaired
    /\ hwst = {}
    /\ sc = NoFreeze
    /\ tim \in TimerBefore

NextTimer ==
    \/ TimerNew
    \/ StartCall
    \/ StartDisable
    \/ StartTav
    \/ StartTailr
    \/ StartEnable
    \/ WaitCall
    \/ WaitRead
    \/ WaitClear
    \/ TimerFree
    \/ HwTimeout

\* timer0, start, wait and free of one timer, and its hardware
SpecTimer == InitTimer /\ [][NextTimer]_vars

(* --------------------------- clock set-up ----------------------------- *)

\* enum CrystalFrequency (the same list on both chips)
Crystals ==
    {"_4mhz", "_4_09mhz", "_4_91mhz", "_5mhz", "_5_12mhz", "_6mhz", "_6_14mhz",
     "_7_37mhz", "_8mhz", "_8_19mhz", "_10mhz", "_12mhz", "_12_2mhz", "_13_5mhz",
     "_14_3mhz", "_16mhz", "_16_3mhz", "_18mhz", "_20mhz", "_24mhz", "_25mhz"}

\* impl From<CrystalFrequency> for Hertz (tm4c123x: impl Into<Hertz>, the same table)
CrystalHz(c) ==
    CASE c = "_4mhz" -> 4000000
      [] c = "_4_09mhz" -> 4090000
      [] c = "_4_91mhz" -> 4910000
      [] c = "_5mhz" -> 5000000
      [] c = "_5_12mhz" -> 5120000
      [] c = "_6mhz" -> 6000000
      [] c = "_6_14mhz" -> 6140000
      [] c = "_7_37mhz" -> 7370000
      [] c = "_8mhz" -> 8000000
      [] c = "_8_19mhz" -> 8190000
      [] c = "_10mhz" -> 10000000
      [] c = "_12mhz" -> 12000000
      [] c = "_12_2mhz" -> 12200000
      [] c = "_13_5mhz" -> 13500000
      [] c = "_14_3mhz" -> 14300000
      [] c = "_16mhz" -> 16000000
      [] c = "_16_3mhz" -> 16300000
      [] c = "_18mhz" -> 18000000
      [] c = "_20mhz" -> 20000000
      [] c = "_24mhz" -> 24000000
      [] c = "_25mhz" -> 25000000

\* enum Divider, as u32
Dividers == 1..16

\* tm4c129x: enum PllOutputFrequency, by its value in Hertz
PllOut129 == {120000000, 60000000, 48000000, 30000000, 24000000, 12000000, 6000000}

\* tm4c123x: enum PllOutputFrequency, by its discriminant (freq as u8)
PllOut123 == {0} \cup (2..15)

\* tm4c129x: every value of Oscillator
Oscillators129 ==
    {[osc |-> "Main", crystal |-> c, use |-> "UseOscillator", arg |-> d] :
        c \in Crystals, d \in Dividers}
    \cup {[osc |-> "Main", crystal |-> c, use |-> "UsePll", arg |-> f] :
        c \in Crystals, f \in PllOut129}
    \cup {[osc |-> "PrecisionInternal", crystal |-> "none", use |-> "UseOscillator", arg |-> d] :
        d \in Dividers}
    \cup {[osc |-> "PrecisionInternal", crystal |-> "none", use |-> "UsePll", arg |-> f] :
        f \in PllOut129}
    \cup {[osc |-> "LowFrequencyInternal", crystal |-> "none", use |-> "none", arg |-> d] :
        d \in Dividers}

\* tm4c123x: every value of Oscillator
Oscillators123 ==
    {[osc |-> "Main", crystal |-> c, use |-> "UseOscillator", arg |-> d] :
        c \in Crystals, d \in Dividers}
    \cup {[osc |-> "Main", crystal |-> c, use |-> "UsePll", arg |-> f] :
        c \in Crystals, f \in PllOut123}
    \cup {[osc |-> "PrecisionInternal", crystal |-> "none", use |-> "UseOscillator", arg |-> d] :
        d \in Dividers}
    \cup {[osc |-> "PrecisionInternal", crystal |-> "none", use |-> "UsePll", arg |-> f] :
        f \in PllOut123}
    \cup {[osc |-> "PrecisionInternalDiv4", crystal |-> "none", use |-> "none", arg |-> d] :
        d \in Dividers}
    \cup {[osc |-> "LowFrequencyInternal", crystal |-> "none", use |-> "none", arg |-> d] :
        d \in Dividers}

\* the fields of a register r with the fields of f replaced
Merge(r, f) == [x \in DOMAIN r |-> IF x \in DOMAIN f THEN f[x] ELSE r[x]]

\* tm4c129x: the registers freeze touches, at their reset values; reg.write(..)
\* starts from these
Reset129 ==
    [rsclkcfg |-> [memtimu |-> 0, newfreq |-> 0, usepll |-> 0, pllsrc |-> "piosc",
                   oscsrc |-> "piosc", osysdiv |-> 0, psysdiv |-> 0],
     pllfreq0 |-> [pllpwr |-> 0, mfrac |-> 0, mint |-> 0],
     pllfreq1 |-> [q |-> 0, n |-> 0],
     moscctl |-> [oscrng |-> 0, noxtal |-> 1, pwrdn |-> 1],
     memtim0 |-> [fbcht |-> 0, ebcht |-> 0, fbce |-> 1, ebce |-> 1, fws |-> 0, ews |-> 0]]

\* tm4c123x: the registers freeze touches, at their reset values
Reset123 ==
    [rcc |-> [moscdis |-> 1, oscsrc |-> "int", xtal |-> "_6mhz", bypass |-> 1,
              pwrdn |-> 1, usesysdiv |-> 0, sysdiv |-> 15],
     rcc2 |-> [usercc2 |-> 0, div400 |-> 0, sysdiv2 |-> 15, sysdiv2lsb |-> 1, bypass2 |-> 1],
     misc |-> [plllmis |-> 0]]

\* one register access, wait loop or exit of freeze
RegWrite(reg, f) == [k |-> "write", reg |-> reg, set |-> f]
RegModify(reg, f) == [k |-> "modify", reg |-> reg, set |-> f]
WaitFor(flag) == [k |-> "wait", reg |-> flag, set |-> <<>>]
Abort(why) == [k |-> "panic", reg |-> why, set |-> <<>>]
Clocks(o, c) == [k |-> "return", reg |-> "none", set |-> [osc |-> o, sysclk |-> c]]

\* tm4c129x: let (xbcht, xbce, xws) = match sysclk.0 { .. } of the PLL arms
MemTimPll(c) ==
    IF c <= 16000000 THEN <<0, 1, 0>>
    ELSE IF c <= 40000000 THEN <<2, 0, 1>>
    ELSE IF c <= 60000000 THEN <<3, 0, 2>>
    ELSE IF c <= 80000000 THEN <<4, 0, 3>>
    ELSE IF c <= 100000000 THEN <<5, 0, 4>>
    ELSE IF c <= 120000000 THEN <<6, 0, 5>>
    ELSE <<>>

\* tm4c129x: the same match of the Main / UseOscillator arm
MemTimOsc(c) ==
    IF c <= 15999999 THEN <<0, 1, 0>>
    ELSE IF c <= 39999999 THEN <<2, 0, 1>>
    ELSE <<>>

\* tm4c129x: the MEMTIM0 access with the chosen timing, or the unreachable!() arm
MemTim(kind, t) ==
    IF t = <<>>
    THEN Abort("unreachable")
    ELSE [k |-> kind, reg |-> "memtim0",
          set |-> [fbcht |-> t[1], ebcht |-> t[1], fbce |-> t[2], ebce |-> t[2],
                   fws |-> t[3], ews |-> t[3]]]

\* tm4c129x: the accesses of freeze for the oscillator o, in program order
Freeze129(o) ==
    IF o.osc = "PrecisionInternal" /\ o.use = "UseOscillator" THEN
        <<RegWrite("rsclkcfg", [osysdiv |-> o.arg - 1]),
          Clocks(16000000, 16000000 \div o.arg)>>
    ELSE IF o.osc = "PrecisionInternal" /\ o.use = "UsePll" THEN
        <<RegWrite("rsclkcfg", [pllsrc |-> "piosc"]),
          RegWrite("pllfreq0", [pllpwr |-> 1, mfrac |-> 0, mint |-> 30]),
          RegWrite("pllfreq1", [q |-> 0, n |-> 0]),
          RegWrite("rsclkcfg", [newfreq |-> 1]),
          MemTim("write", MemTimPll(o.arg)),
          WaitFor("lock"),
          RegWrite("rsclkcfg", [usepll |-> 1, memtimu |-> 1,
                                psysdiv |-> (480000000 \div o.arg - 1) % 65536]),
          Clocks(16000000, o.arg)>>
    ELSE IF o.osc = "Main" /\ o.use = "UseOscillator" THEN
        <<RegWrite("moscctl", [oscrng |-> 1, noxtal |-> 0, pwrdn |-> 0]),
          MemTim("modify", MemTimOsc(CrystalHz(o.crystal) \div o.arg)),
          WaitFor("moscpupris"),
          RegWrite("rsclkcfg", [oscsrc |-> "mosc", memtimu |-> 1, osysdiv |-> o.arg - 1]),
          Clocks(CrystalHz(o.crystal), CrystalHz(o.crystal) \div o.arg)>>
    ELSE IF o.osc = "Main" /\ o.use = "UsePll" THEN
        <<RegWrite("moscctl", [oscrng |-> 1, noxtal |-> 0, pwrdn |-> 0]),
          WaitFor("moscpupris"),
          RegWrite("rsclkcfg", [pllsrc |-> "mosc"]),
          RegWrite("pllfreq1", [q |-> 0, n |-> 4]),
          RegWrite("pllfreq0", [mfrac |-> 0, mint |-> 96]),
          RegModify("pllfreq0", [pllpwr |-> 1]),
          WaitFor("lock"),
          MemTim("write", MemTimPll(o.arg)),
          RegWrite("rsclkcfg", [usepll |-> 1, memtimu |-> 1,
                                psysdiv |-> (480000000 \div o.arg - 1) % 65536]),
          Clocks(CrystalHz(o.crystal), o.arg)>>
    ELSE
        <<Abort("unimplemented")>>

\* tm4c123x: the first rcc.write of freeze, by oscillator
Rcc123(o) ==
    IF o.osc = "Main" THEN
        [bypass |-> 1, oscsrc |-> "main", moscdis |-> 0, xtal |-> o.crystal,
         usesysdiv |-> IF o.use = "UseOscillator" THEN 1 ELSE 0,
         sysdiv |-> IF o.use = "UseOscillator" THEN o.arg - 1 ELSE 0]
    ELSE IF o.osc = "PrecisionInternal" THEN
        [bypass |-> 1, oscsrc |-> "int", moscdis |-> 1,
         usesysdiv |-> IF o.use = "UseOscillator" THEN 1 ELSE 0,
         sysdiv |-> IF o.use = "UseOscillator" THEN o.arg - 1 ELSE 0]
    ELSE IF o.osc = "PrecisionInternalDiv4" THEN
        [bypass |-> 1, oscsrc |-> "int4", moscdis |-> 1, usesysdiv |-> 1, sysdiv |-> o.arg - 1]
    ELSE
        [bypass |-> 1, oscsrc |-> "_30", moscdis |-> 1, usesysdiv |-> 1, sysdiv |-> o.arg - 1]

\* tm4c123x: osc as freeze sets it
Osc123(o) ==
    IF o.osc = "Main" THEN CrystalHz(o.crystal)
    ELSE IF o.osc = "PrecisionInternal" THEN 16000000
    ELSE IF o.osc = "PrecisionInternalDiv4" THEN 4000000
    ELSE 30000

\* tm4c123x: sysclk as freeze leaves it
Sysclk123(o) ==
    IF o.use = "UsePll"
    THEN IF o.arg = 0 THEN 400000000 \div 5 ELSE 400000000 \div (2 * (o.arg + 1))
    ELSE Osc123(o) \div o.arg

\* tm4c123x: the accesses of freeze for the oscillator o, in program order
Freeze123(o) ==
    IF o.use = "UsePll" THEN
        <<RegWrite("rcc", Rcc123(o)),
          RegWrite("misc", [plllmis |-> 1]),
          RegWrite("rcc", [pwrdn |-> 0]),
          WaitFor("lock"),
          IF o.arg = 0
          THEN RegWrite("rcc2", [usercc2 |-> 1, div400 |-> 1, sysdiv2lsb |-> 0,
                                 sysdiv2 |-> 2, bypass2 |-> 0])
          ELSE RegModify("rcc", [sysdiv |-> o.arg, usesysdiv |-> 1, bypass |-> 0]),
          Clocks(Osc123(o), Sysclk123(o))>>
    ELSE
        <<RegWrite("rcc", Rcc123(o)),
          Clocks(Osc123(o), Sysclk123(o))>>

\* the accesses of the freeze in progress, and the one it is at
FreezeProg == IF sc.chip = "tm4c129x" THEN Freeze129(sc.cfg) ELSE Freeze123(sc.cfg)
FreezeAt == FreezeProg[sc.ip]
ResetRegs == IF sc.chip = "tm4c129x" THEN Reset129 ELSE Reset123

\* the state in which freeze is called on a chip after reset
FreezeCalled(chip, o, regs) ==
    [pc |-> "run", chip |-> chip, cfg |-> o, ip |-> 1, regs |-> regs,
     lock |-> FALSE, moscpupris |-> FALSE, clocks |-> [osc |-> 0, sysclk |-> 0]]

\* sysctl.<reg>.write(..): the reset value with the named fields set
FreezeWrite ==
    /\ sc.pc = "run"
    /\ FreezeAt.k = "write"
    /\ sc' = [sc EXCEPT !.ip = @ + 1,
                        !.regs[FreezeAt.reg] = Merge(ResetRegs[FreezeAt.reg], FreezeAt.set)]
    /\ UNCHANGED <<hwst, tim>>
    /\ UNCHANGED ovars
    /\ UNCHANGED cvars
    /\ UNCHANGED tvars
    /\ UNCHANGED pvars

\* sysctl.<reg>.modify(..): the value read with the named fields set
FreezeModify ==
    /\ sc.pc = "run"
    /\ FreezeAt.k = "modify"
    /\ sc' = [sc EXCEPT !.ip = @ + 1,
                        !.regs[FreezeAt.reg] = Merge(@, FreezeAt.set)]
    /\ UNCHANGED <<hwst, tim>>
    /\ UNCHANGED ovars
    /\ UNCHANGED cvars
    /\ UNCHANGED tvars
    /\ UNCHANGED pvars

\* while sysctl.<status>.read().<flag>().bit_is_clear() { nop() }: left once the flag is set
FreezeWait ==
    /\ sc.pc = "run"
    /\ FreezeAt.k = "wait"
    /\ sc[FreezeAt.reg]
    /\ sc' = [sc EXCEPT !.ip = @ + 1]
    /\ UNCHANGED <<hwst, tim>>
    /\ UNCHANGED ovars
    /\ UNCHANGED cvars
    /\ UNCHANGED tvars
    /\ UNCHANGED pvars

\* an unreachable!() or unimplemented!() arm
FreezePanic ==
    /\ sc.pc = "run"
    /\ FreezeAt.k = "panic"
    /\ sc' = [sc EXCEPT !.pc = FreezeAt.reg]
    /\ UNCHANGED <<hwst, tim>>
    /\ UNCHANGED ovars
    /\ UNCHANGED cvars
    /\ UNCHANGED tvars
    /\ UNCHANGED pvars

\* Clocks { osc, sysclk }
FreezeReturn ==
    /\ sc.pc = "run"
    /\ FreezeAt.k = "return"
    /\ sc' = [sc EXCEPT !.pc = "returned", !.clocks = FreezeAt.set]
    /\ UNCHANGED <<hwst, tim>>
    /\ UNCHANGED ovars
    /\ UNCHANGED cvars
    /\ UNCHANGED tvars
    /\ UNCHANGED pvars

\* the hardware: the powered PLL reaches lock
HwPllLock ==
    /\ sc.pc = "run"
    /\ ~sc.lock
    /\ IF sc.chip = "tm4c129x" THEN sc.regs.pllfreq0.pllpwr = 1 ELSE sc.regs.rcc.pwrdn = 0
    /\ sc' = [sc EXCEPT !.lock = TRUE]
    /\ UNCHANGED <<hwst, tim>>
    /\ UNCHANGED ovars
    /\ UNCHANGED cvars
    /\ UNCHANGED tvars
    /\ UNCHANGED pvars

\* the hardware: the powered main oscillator becomes ready
HwMoscReady ==
    /\ sc.pc = "run"
    /\ sc.chip = "tm4c129x"
    /\ ~sc.moscpupris
    /\ sc.regs.moscctl.pwrdn = 0
    /\ sc.regs.moscctl.noxtal = 0
    /\ sc' = [sc EXCEPT !.moscpupris = TRUE]
    /\ UNCHANGED <<hwst, tim>>
    /\ UNCHANGED ovars
    /\ UNCHANGED cvars
    /\ UNCHANGED tvars
    /\ UNCHANGED pvars

\* Init with freeze called on a tm4c129x for any oscillator
InitFreeze129 ==
    /\ inflight = 0
    /\ op = "none"
    /\ addr = 0
    /\ bytes = <<>>
    /\ buffer = <<>>
    /\ ip = 1
    /\ wait = "none"
    /\ spins = 0
    /\ mcs = {}
    /\ result = "none"
    /\ log = <<>>
    /\ prev = NoCall
    /\ Constructed
    /\ Untimed
    /\ Unpaired
    /\ hwst = {}
    /\ tim = NoTimer
    /\ sc \in {FreezeCalled("tm4c129x", o, Reset129) : o \in Oscillators129}

NextFreeze129 ==
    \/ FreezeWrite
    \/ FreezeModify
    \/ FreezeWait
    \/ FreezePanic
    \/ FreezeReturn
    \/ HwPllLock
    \/ HwMoscReady

\* tm4c129x: ClockSetup::freeze and the clock hardware
SpecFreeze129 == InitFreeze129 /\ [][NextFreeze129]_vars

\* Init with freeze called on a tm4c123x for any oscillator
InitFreeze123 ==
    /\ inflight = 0
    /\ op = "none"
    /\ addr = 0
    /\ bytes = <<>>
    /\ buffer = <<>>
    /\ ip = 1
    /\ wait = "none"
    /\ spins = 0
    /\ mcs = {}
    /\ result = "none"
    /\ log = <<>>
    /\ prev = NoCall
    /\ Constructed
    /\ Untimed
    /\ Unpaired
    /\ hwst = {}
    /\ tim = NoTimer
    /\ sc \in {FreezeCalled("tm4c123x", o, Reset123) : o \in Oscillators123}

NextFreeze123 ==
    \/ FreezeWrite
    \/ FreezeModify
    \/ FreezeWait
    \/ FreezeReturn
    \/ HwPllLock

\* tm4c123x: ClockSetup::freeze and the clock hardware
SpecFreeze123 == InitFreeze123 /\ [][NextFreeze123]_vars

(* ------------------------------ claims -------------------------------- *)

\* a call has returned and none is in progress
Returned == inflight = 0 /\ op # "none"
\* the commands issued so far by the operation called last
LogCmds == Cmds(log)
\* the positions of the log holding an access of the given kind
Positions(kind) == {i \in 1..Len(log) : log[i].k = kind}

\* C1: write with an empty byte slice and read with an empty buffer return Ok
\* and perform no register access at all (no MSA, MDR or MCS write, no poll,
\* no status read).
C1_EmptyIsNoOp ==
    ((op = "write" /\ bytes = <<>>) \/ (op = "read" /\ buffer = <<>>)) =>
        /\ log = <<>>
        /\ wait = "none" /\ spins = 0 /\ mcs = {}
        /\ result \in {"none", "Ok"}
        /\ inflight = 0 => result = "Ok"

C1_Witness == Returned /\ op = "read" /\ buffer = <<>> /\ result = "Ok"

\* C2: while no poll has observed an error or arbitration loss, write with
\* n >= 1 bytes and read with n >= 1 slots issue at most n commands, exactly n
\* once they return Ok; START is set on the first command and on no other,
\* STOP on the n-th and on no other (for n = 1 the single command has both).
C2_CommandCount ==
    LET n == IF op = "write" THEN Len(bytes) ELSE Len(buffer)
        c == LogCmds
    IN (op \in {"write", "read"} /\ n >= 1 /\ result \notin Errors) =>
          /\ Len(c) <= n
          /\ result = "Ok" => Len(c) = n
          /\ \A i \in 1..Len(c) :
                /\ START \in c[i] <=> i = 1
                /\ STOP \in c[i] <=> i = n

C2_Witness == Returned /\ op = "write" /\ Len(bytes) = 3 /\ result = "Ok"

SetMin(S) == CHOOSE x \in S : \A y \in S : x <= y
SetMax(S) == CHOOSE x \in S : \A y \in S : x >= y

\* C3: in write_read with non-empty bytes and non-empty buffer no command of
\* the outgoing phase has STOP; the address register is written a second time,
\* with the receive bit set, after all outgoing byte-steps (every byte written,
\* every outgoing command issued and polled); the first command after that
\* second address write has START (repeated START).
C3_RepeatedStart ==
    (op = "write_read" /\ bytes # <<>> /\ buffer # <<>>) =>
        LET msa == Positions("msa_w")
            cmd == Positions("mcs_w")
            second == IF Cardinality(msa) >= 2 THEN SetMax(msa) ELSE Len(log) + 1
            after == {i \in cmd : i > second}
        IN /\ Cardinality(msa) <= 2
           /\ \A i \in cmd : i < second => STOP \notin log[i].bits
           /\ Cardinality(msa) = 2 =>
                 /\ log[second].rs /\ log[second].sa = addr % 128
                 /\ ~log[SetMin(msa)].rs
                 /\ Cardinality({i \in cmd : i < second}) = Len(bytes)
                 /\ Cardinality({i \in Positions("mdr_w") : i < second}) = Len(bytes)
                 /\ log[second - 1].k = "delay"
                 /\ after # {} => START \in log[SetMin(after)].bits
           /\ result = "Ok" => Cardinality(msa) = 2 /\ after # {}

C3_Witness ==
    Returned /\ op = "write_read" /\ Len(bytes) = 2 /\ Len(buffer) = 2 /\ result = "Ok"

\* C4: a status read with the error bit set makes the operation return AdrAck
\* when adrack is set (datack set or not), DataAck when only datack is set, and
\* Bus when neither is set.
C4_ErrorPriority ==
    "error" \in mcs =>
        /\ "adrack" \in mcs => result = "AdrAck"
        /\ ("adrack" \notin mcs /\ "datack" \in mcs) => result = "DataAck"
        /\ ("adrack" \notin mcs /\ "datack" \notin mcs) => result = "Bus"

C4_Witness == mcs = {"error", "adrack", "datack"} /\ result = "AdrAck"

\* C5: a status read with the arbitration-loss bit set makes the operation
\* return Arbitration, whatever the other bits of that status value are.
C5_ArbitrationAlways == "arblst" \in mcs => result = "Arbitration"

\* C6: a status read with the error or the arbitration-loss bit set makes the
\* operation return the error at once: the poll's delay is the last entry of
\* its log (no STOP command, no retry, no further byte), the failed poll is
\* still its next statement, and it takes no further step.
C6_AbortAtOnce ==
    /\ ("error" \in mcs \/ "arblst" \in mcs) => result \in Errors
    /\ result \in Errors =>
          /\ "error" \in mcs \/ "arblst" \in mcs
          /\ inflight = 0
          /\ log # <<>> /\ log[Len(log)].k = "delay"
          /\ ip <= Len(Prog) /\ Prog[ip].k = "poll"
          /\ ~ENABLED Step

C6_Witness ==
    /\ op = "write" /\ Len(bytes) = 3 /\ result = "DataAck"
    /\ Len(LogCmds) = 1

\* a START has been issued and no STOP after it
Pending(c) ==
    \E i \in 1..Len(c) : START \in c[i] /\ \A j \in i..Len(c) : STOP \notin c[j]

\* C7: whenever no operation is executing, also after one that returned an
\* error, no START is left without its STOP.
C7_IdleBetweenCalls == inflight = 0 => ~Pending(LogCmds)

C9_NoTimeout ==
    [][(/\ AtInstr("poll") /\ wait = "loop"
        /\ Instr.flag \in mcs'
        /\ "error" \notin mcs' /\ "arblst" \notin mcs')
       => (/\ ip' = ip /\ wait' = "loop" /\ result' = "none"
           /\ inflight' = inflight /\ log' = log)]_vars

C9_Witness ==
    /\ AtInstr("poll") /\ wait = "loop" /\ spins = MaxSpin
    /\ Instr.flag \in mcs
    /\ op = "write_read" /\ Len(LogCmds) >= 2

\* C10: a write of one byte that returned Ok followed by a read into a
\* one-slot buffer that returned Ok issue two commands in total, each exactly
\* START, STOP and RUN; no command of a one-byte write or read has ACK.
C10_SingleByteNoAck ==
    /\ (/\ prev.ok /\ prev.op = "write" /\ prev.nout = 1
        /\ op = "read" /\ Len(buffer) = 1 /\ result = "Ok") =>
          LET all == prev.cmds \o LogCmds
          IN Len(all) = 2 /\ \A i \in 1..Len(all) : all[i] = {START, STOP, RUN}
    /\ ((op = "write" /\ Len(bytes) = 1) \/ (op = "read" /\ Len(buffer) = 1)) =>
          \A i \in 1..Len(LogCmds) : ACK \notin LogCmds[i]

C10_Witness ==
    /\ prev.ok /\ prev.op = "write" /\ prev.nout = 1
    /\ op = "read" /\ Len(buffer) = 1 /\ result = "Ok"

\* C11: a write_read with m >= 1 bytes and k >= 1 slots that returned Ok issued
\* exactly m + k commands: START+RUN, then RUN only for each further outgoing
\* byte; then RUN+START+STOP if k = 1, else RUN+START+ACK, RUN+ACK for each
\* interior slot and RUN+STOP for the last slot.
C11_WriteReadCommands ==
    LET m == Len(bytes)
        k == Len(buffer)
        c == LogCmds
    IN (op = "write_read" /\ m >= 1 /\ k >= 1 /\ result = "Ok") =>
          /\ Len(c) = m + k
          /\ c[1] = {START, RUN}
          /\ \A i \in 2..m : c[i] = {RUN}
          /\ k = 1 => c[m + 1] = {RUN, START, STOP}
          /\ k >= 2 =>
                /\ c[m + 1] = {RUN, START, ACK}
                /\ \A i \in (m + 2)..(m + k - 1) : c[i] = {RUN, ACK}
                /\ c[m + k] = {RUN, STOP}

C11_Witness ==
    Returned /\ op = "write_read" /\ Len(bytes) = 3 /\ Len(buffer) = 3 /\ result = "Ok"

\* the log entry an instruction leaves, given the buffer it filled
Access(instr, buf) ==
    CASE instr.k = "poll" -> [k |-> "delay", flag |-> instr.flag]
      [] instr.k = "mdr_r" -> [k |-> "mdr_r", data |-> buf[instr.slot]]
      [] OTHER -> instr
\* the log follows the body: it is the accesses of the body's first instructions
Follows(body) ==
    /\ Len(log) <= Len(body)
    /\ \A i \in 1..Len(log) :
          /\ log[i].k = Access(body[i], buffer).k
          /\ log[i] = Access(body[i], buffer)
    /\ result = "Ok" => Len(log) = Len(body)

\* C12: write_read with an empty buffer performs the register accesses of
\* write(addr, bytes), with an empty bytes those of read(addr, buffer), in the
\* same order and all of them when it returns Ok; with both empty it performs
\* no register access and returns Ok.
C12_Delegates ==
    op = "write_read" =>
        /\ buffer = <<>> => Follows(WriteBody(addr, bytes))
        /\ bytes = <<>> => Follows(ReadBody(addr, Len(buffer)))
        /\ (bytes = <<>> /\ buffer = <<>>) =>
              /\ log = <<>> /\ result \in {"none", "Ok"}
              /\ inflight = 0 => result = "Ok"

C12_Witness ==
    /\ Returned /\ op = "write_read" /\ Len(bytes) = 2 /\ buffer = <<>>
    /\ result = "Ok" /\ Len(LogCmds) = 2

\* the constructor has written the timing-period register
TimingWritten == cpc \in {"mtpr", "built", "freed"}

\* t is an integer nearest to cyc / (2 * 10 * f) - 1 (either neighbour at a tie)
Nearest(t, clk, f) ==
    LET d == 2 * 10 * f * (t + 1) - clk
    IN  2 * (IF d < 0 THEN -d ELSE d) <= 2 * 10 * f

\* C13: construction writes the timing-period register with
\* systemClockHz / (2 * 10 * busFrequencyHz) - 1 rounded to the nearest
\* integer and truncated to the register's width, for every system clock and
\* bus frequency (stated where the quotient is at least 1, so that the value
\* is defined and non-negative).
C13_TprRounded ==
    LET q == sysclk \div (2 * 10 * freq)
    IN  (TimingWritten /\ freq # 0 /\ q >= 1) =>
            \E t \in {q - 1, q} : Nearest(t, sysclk, freq) /\ tpr = t % 256

\* C14: construction never fails, rejects or aborts, whatever the requested
\* frequency is, 0 and frequencies above systemClockHz / 20 included.
C14_NeverAborts == cpc # "panic"

\* C15: once construction has written the master control register, it holds
\* the master-function-enable bit and no other configuration bit, whatever
\* it held before the write.
C15_McrOnlyMfe ==
    cpc \in {"mcr", "mtpr", "built", "freed", "panic"} => mcr = {"mfe"}

C15_Witness ==
    /\ cpc = "built"
    /\ \E i \in 1..Len(clog) :
          clog[i].k = "mcr_w" /\ clog[i].old = {"lpbk", "sfe", "gfe"}
    /\ mcr = {"mfe"}

\* C16: free performs no register access and changes no register, and it
\* returns exactly the peripheral and the pin pair that were passed to
\* construction.
C16_FreeTouchesNothing ==
    [][(cpc = "built" /\ cpc' = "freed") =>
          /\ clog' = clog
          /\ mcr' = mcr
          /\ tpr' = tpr
          /\ ret' = <<periph, pins>>
          /\ periph' = periph
          /\ pins' = pins]_vars

C16_Witness ==
    /\ cpc = "freed"
    /\ ret = <<"I2C1", "PA6_PA7">>
    /\ mcr = {"mfe"}
    /\ Len(clog) = 4

\* the operation in progress is in the loop of a poll, about to read the status
InPoll == AtInstr("poll") /\ wait = "loop"

\* C17: a poll is left for the next instruction only by a status read with
\* the monitored busy bit, the error bit and the arbitration-loss bit all
\* clear; a status read with error or arbitration-loss set ends the operation
\* with an error and never moves on, also when the monitored bit is clear.
C17_PollExit ==
    [][InPoll =>
          /\ ip' # ip =>
                /\ Instr.flag \notin mcs'
                /\ "error" \notin mcs'
                /\ "arblst" \notin mcs'
          /\ ("error" \in mcs' \/ "arblst" \in mcs') =>
                /\ ip' = ip
                /\ result' \in Errors
                /\ inflight' = 0
                /\ log' = log]_vars

C17_Witness ==
    /\ Returned
    /\ result = "Arbitration"
    /\ ip <= Len(Prog)
    /\ Instr.k = "poll"
    /\ Instr.flag = "busy"
    /\ mcs = {"arblst"}

\* the polls the operation called last has started: those it has left, and the
\* one it is in or has failed in
PollsStarted ==
    {j \in 1..Len(Prog) :
        /\ Prog[j].k = "poll"
        /\ \/ j < ip
           \/ j = ip /\ (wait = "loop" \/ result \in Errors)}

\* C18: every poll performs the settling delay exactly once, as its first
\* step and before any status read; the status reads that follow in the same
\* poll do not repeat it, so the log holds one delay per poll started.
C18_DelayOnce ==
    [][/\ (AtInstr("poll") /\ wait = "none") =>
             /\ log' = Append(log, [k |-> "delay", flag |-> Instr.flag])
             /\ wait' = "loop"
             /\ mcs' = mcs
             /\ ip' = ip
       /\ InPoll =>
             /\ log' = log
             /\ log[Len(log)] = [k |-> "delay", flag |-> Instr.flag]
       /\ Cardinality(Positions("delay")') = Cardinality(PollsStarted')]_vars

C18_Witness ==
    /\ InPoll
    /\ spins = MaxSpin
    /\ "busy" \in mcs
    /\ Cardinality(Positions("delay")) = 2
    /\ Cardinality(PollsStarted) = 2

\* the error kinds the claim names
FourKinds == {"Bus", "Arbitration", "DataAck", "AdrAck"}

\* C19: an operation's result is Ok or one of the four kinds Bus, Arbitration,
\* DataAck and AdrAck, never _Extensible; the step that produces an error ends
\* the operation without a further register access, and nothing follows a
\* returned error but the next call (no retry of the failed step).
C19_FourKindsNoRetry ==
    [][/\ result' \in {"none", "Ok"} \cup FourKinds
       /\ (result = "none" /\ result' # "none" /\ result' # "Ok") =>
             /\ result' \in FourKinds
             /\ inflight' = 0
             /\ log' = log
             /\ ip' = ip
       /\ result \in FourKinds =>
             /\ inflight = 0
             /\ inflight' = 1
             /\ result' = "none"
             /\ ip' = 1
             /\ log' = <<>>]_vars

C19_Witness ==
    /\ Returned
    /\ op = "write_read"
    /\ result = "DataAck"
    /\ Len(LogCmds) = 2

\* C20: a successful write of n >= 1 bytes performs exactly 3n + 2 accesses:
\* the address write with the read bit clear, the data write of the first
\* byte, a bus-busy poll and the first command; then for each further byte a
\* busy poll, the data write of that byte and its command; then a final busy
\* poll. Each byte is written once, in input order, before its command.
C20_WriteSequence ==
    LET n == Len(bytes)
    IN  (Returned /\ op = "write" /\ result = "Ok" /\ n >= 1) =>
            /\ Len(log) = 3 * n + 2
            /\ log[1] = [k |-> "msa_w", sa |-> addr % 128, rs |-> FALSE]
            /\ log[2] = [k |-> "mdr_w", data |-> bytes[1]]
            /\ log[3] = [k |-> "delay", flag |-> "busbsy"]
            /\ log[4].k = "mcs_w"
            /\ \A i \in 2..n :
                  /\ log[3 * i - 1] = [k |-> "delay", flag |-> "busy"]
                  /\ log[3 * i] = [k |-> "mdr_w", data |-> bytes[i]]
                  /\ log[3 * i + 1].k = "mcs_w"
            /\ log[3 * n + 2] = [k |-> "delay", flag |-> "busy"]

C20_Witness ==
    /\ Returned
    /\ op = "write"
    /\ result = "Ok"
    /\ Len(bytes) = 3
    /\ Len(log) = 11

\* C21: a successful read into n >= 1 slots performs exactly 3n + 2 accesses:
\* the address write with the read bit set, one bus-busy poll, then for each
\* slot its command, a busy poll and one data-register read. For n >= 2 the
\* commands are START+RUN+ACK, RUN+ACK for each interior slot and RUN+STOP
\* (no ACK) for the last slot.
C21_ReadSequence ==
    LET n == Len(buffer)
    IN  (Returned /\ op = "read" /\ result = "Ok" /\ n >= 1) =>
            /\ Len(log) = 3 * n + 2
            /\ log[1] = [k |-> "msa_w", sa |-> addr % 128, rs |-> TRUE]
            /\ log[2] = [k |-> "delay", flag |-> "busbsy"]
            /\ \A i \in 1..n :
                  /\ log[3 * i].k = "mcs_w"
                  /\ log[3 * i + 1] = [k |-> "delay", flag |-> "busy"]
                  /\ log[3 * i + 2].k = "mdr_r"
            /\ n >= 2 =>
                  /\ log[3].bits = {START, RUN, ACK}
                  /\ \A i \in 2..(n - 1) : log[3 * i].bits = {RUN, ACK}
                  /\ log[3 * n].bits = {RUN, STOP}

C21_Witness ==
    /\ Returned
    /\ op = "read"
    /\ result = "Ok"
    /\ Len(buffer) = 3
    /\ Len(log) = 11

\* the position in the log of the i-th access of the given kind
NthPos(kind, i) ==
    CHOOSE p \in Positions(kind) :
        Cardinality({q \in Positions(kind) : q <= p}) = i

\* C22: the data register is read at most len(buffer) times, and exactly that
\* often by a successful operation; the i-th read directly follows the busy
\* poll of a command, is taken only once that poll has returned normally
\* (busy, error and arblst clear), and its value is what slot i holds; the
\* slots not read yet are untouched.
C22_SlotsInOrder ==
    LET n == Len(buffer)
        r == Cardinality(Positions("mdr_r"))
    IN  op \in {"read", "write_read"} =>
            /\ r <= n
            /\ result = "Ok" => r = n
            /\ \A i \in 1..r :
                  LET p == NthPos("mdr_r", i)
                  IN  /\ p > 2
                      /\ log[p - 1] = [k |-> "delay", flag |-> "busy"]
                      /\ log[p - 2].k = "mcs_w"
                      /\ buffer[i] = log[p].data
            /\ \A i \in (r + 1)..n : buffer[i] = 0
            /\ AtInstr("mdr_r") =>
                  /\ Prog[ip - 1] = BusyWait("busy")
                  /\ mcs \cap {"busy", "error", "arblst"} = {}
                  /\ Instr.slot = r + 1

C22_Witness ==
    /\ Returned
    /\ op = "write_read"
    /\ result = "Ok"
    /\ Len(bytes) = 2
    /\ buffer = <<17, 34, 17>>

\* the operation called last has a non-empty slice to transfer
NonEmpty ==
    \/ op = "write" /\ bytes # <<>>
    \/ op = "read" /\ buffer # <<>>
    \/ op = "write_read" /\ (bytes # <<>> \/ buffer # <<>>)

\* the positions of the log holding the delay of a poll of the given flag
PollsOf(flag) == {p \in Positions("delay") : log[p].flag = flag}

\* C23: the access that follows a command-register write is always a busy
\* poll, and no operation returns Ok with a command as its last access; an
\* operation performs at most one bus-busy poll, which comes before all its
\* commands, and exactly one when it is non-empty and has returned.
C23_PollAfterCommand ==
    /\ \A p \in Positions("mcs_w") :
          /\ p < Len(log) => log[p + 1] = [k |-> "delay", flag |-> "busy"]
          /\ p = Len(log) => result # "Ok"
          /\ \E q \in PollsOf("busbsy") : q < p
    /\ Cardinality(PollsOf("busbsy")) <= 1
    /\ (Returned /\ NonEmpty) => Cardinality(PollsOf("busbsy")) = 1

C23_Witness ==
    /\ Returned
    /\ op = "write_read"
    /\ result = "Ok"
    /\ Len(bytes) = 3
    /\ Len(buffer) = 2
    /\ Cardinality(PollsOf("busy")) = 5

\* a write_read with both slices non-empty (the combined transaction)
Combined == op = "write_read" /\ bytes # <<>> /\ buffer # <<>>

\* the accesses of write(addr, bytes), with STOP taken off its last command
WriteNoStop ==
    LET w == WriteBody(addr, bytes)
    IN  [i \in 1..Len(w) |->
            IF i = Len(w) - 1 THEN McsWrite(w[i].bits \ {STOP}) ELSE w[i]]

\* C24: in a combined write_read the accesses before the second address
\* write are those of write(addr, bytes), polls included, but for the STOP
\* bit of the last outgoing command; the second address write (read bit set)
\* comes right after them and nowhere else.
C24_OutgoingAsWrite ==
    LET w == WriteBody(addr, bytes)
    IN  Combined =>
            /\ STOP \in w[Len(w) - 1].bits
            /\ \A i \in 1..Len(log) :
                  /\ i <= Len(w) => log[i] = Access(WriteNoStop[i], buffer)
                  /\ (log[i].k = "msa_w" /\ log[i].rs) => i = Len(w) + 1
            /\ Len(log) > Len(w) => log[Len(w) + 1] = MsaWrite(addr, TRUE)
            /\ result = "Ok" => Len(log) > Len(w)

C24_Witness ==
    /\ Combined
    /\ Len(bytes) = 3
    /\ Len(log) = 12
    /\ log[12] = MsaWrite(addr, TRUE)

\* the accesses of a combined write_read from its second address write on
Incoming ==
    LET from == Len(WriteBody(addr, bytes)) + 1
    IN  SubSeq(log, from, Len(log))

\* the accesses of read(addr, buffer) storing the bytes the buffer holds
ReadAccesses ==
    LET r == ReadBody(addr, Len(buffer))
    IN  [i \in 1..Len(r) |-> Access(r[i], buffer)]

\* the access of the incoming phase agrees with the one of read, but for START
\* on a command
SameButStart(a, b) ==
    IF a.k = "mcs_w" /\ b.k = "mcs_w"
    THEN a.bits \ {START} = b.bits \ {START}
    ELSE a = b

\* C25 as stated: the incoming phase of a successful combined write_read is
\* the access sequence of read from its address write on (the same polls,
\* commands and data reads), the commands differing in START at most.
C25_IncomingAsRead ==
    (Combined /\ result = "Ok") =>
        /\ Len(Incoming) = Len(ReadAccesses)
        /\ \A i \in 1..Len(Incoming) : SameButStart(Incoming[i], ReadAccesses[i])

\* read's accesses without the bus-busy poll that follows its address write
ReadAccessesNoBusPoll == <<ReadAccesses[1]>> \o SubSeq(ReadAccesses, 3, Len(ReadAccesses))

\* C25 amended: the incoming phase of a successful combined write_read is the
\* access sequence of read from its address write on without read's bus-busy
\* poll: the same address write, commands (bit for bit, START included on the
\* first), busy polls and data reads.
C25_IncomingAsReadNoBusPoll ==
    (Combined /\ result = "Ok") =>
        /\ ReadAccesses[2] = [k |-> "delay", flag |-> "busbsy"]
        /\ Incoming = ReadAccessesNoBusPoll

C25_Witness ==
    /\ Returned
    /\ Combined
    /\ result = "Ok"
    /\ Len(bytes) = 1
    /\ Len(buffer) = 3
    /\ Len(Incoming) = 10

\* the command at position p of the log is issued in the read direction: the
\* address write before it that is nearest has the read bit set
ReadDirection(p) ==
    \E a \in Positions("msa_w") :
        /\ a < p
        /\ log[a].rs
        /\ \A b \in Positions("msa_w") : b < p => b <= a

\* the read-direction commands of the log up to position p
ReadCmdsUpTo(p) == {q \in Positions("mcs_w") : q <= p /\ ReadDirection(q)}

\* C26: every command has RUN set; a command with ACK set is a read-direction
\* command, has STOP clear and is not the last read command of the operation
\* (the one for the last slot of the buffer).
C26_RunAndAck ==
    \A p \in Positions("mcs_w") :
        /\ RUN \in log[p].bits
        /\ ACK \in log[p].bits =>
              /\ ReadDirection(p)
              /\ STOP \notin log[p].bits
              /\ Cardinality(ReadCmdsUpTo(p)) < Len(buffer)

C26_Witness ==
    /\ Returned
    /\ op = "write_read"
    /\ result = "Ok"
    /\ Len(bytes) = 2
    /\ Len(buffer) = 3
    /\ Cardinality({p \in Positions("mcs_w") : ACK \in log[p].bits}) = 2

\* C27: a busy poll that follows a command returns normally only on a status
\* read taken once the hardware has raised busy for that command, the
\* hardware taking up to 8 cycles to raise it.
C27_DelaySufficient == rpc = "next" => rd >= lat

\* the order the claim gives: power on, reset, control register, timing register
ConstructionOrder == <<"rcgci2c", "sri2c", "mcr_w", "mtpr_w">>

\* C28: the constructor's accesses are, in this order, the power-on of the
\* clock domain, its reset, the write of the master control register and the
\* write of the timing-period register; no I2C register is written before
\* the reset, and a constructed controller has had all four.
C28_PowerResetMcrMtpr ==
    /\ Len(clog) <= Len(ConstructionOrder)
    /\ \A i \in 1..Len(clog) : clog[i].k = ConstructionOrder[i]
    /\ cpc \in {"mtpr", "built", "freed"} => Len(clog) = Len(ConstructionOrder)
    /\ cpc = "reset" => Len(clog) = 2
    /\ tpr # -1 => Len(clog) = Len(ConstructionOrder)

C28_Witness ==
    /\ cpc = "built"
    /\ freq = 100000
    /\ sysclk = 16000000
    /\ tpr = 7
    /\ Len(clog) = 4

\* C29: given the same calls and the same values from their status and data
\* reads, the tm4c123x and the tm4c129x driver are at the same point of the
\* same access sequence after every step, with the same result and the same
\* buffer content.
C29_SameMachine == drv123 = drv129

C29_Witness ==
    /\ call.op = "write_read"
    /\ Len(call.bytes) = 2
    /\ drv129.result = "Ok"
    /\ drv129.buffer = <<34, 17>>
    /\ Len(drv123.log) = 15

\* C30: on hardware that settles every byte-step, every call of write, read
\* and write_read returns; it issues at most len(bytes) + len(buffer)
\* commands and starts at most 1 + len(bytes) + len(buffer) polls.
C30_Terminates ==
    /\ (inflight > 0) ~> (inflight = 0)
    /\ [](/\ Len(LogCmds) <= Len(bytes) + Len(buffer)
          /\ Cardinality(Positions("delay")) <= 1 + Len(bytes) + Len(buffer))

C30_Witness ==
    /\ Returned
    /\ op = "write_read"
    /\ result = "Ok"
    /\ Len(LogCmds) = 6
    /\ Cardinality(Positions("delay")) = 7

\* the driver is in the loop of its bus-busy poll
StickyInBusPoll == StickyInPoll /\ StickyBody[drv123.ip].flag = "busbsy"

\* the call in progress or returned last was made with the error bit set and
\* has a slice to transfer
StickyLater == call.op # "none" /\ call.after /\ StickyBody # <<>>

\* C31: a status read of the bus-busy poll that shows error or arblst makes
\* the operation return the classified error with no command written; and on
\* hardware that keeps the error bit set until the next command, an operation
\* called with the bit set, if it has anything to transfer, writes no command
\* and returns nothing but an error, leaving the bit set for the next one.
C31_BusPollAborts ==
    [][/\ (StickyInBusPoll /\ ("error" \in hwst' \/ "arblst" \in hwst')) =>
             /\ drv123'.result = BusyWaitStep(hwst', "busbsy")
             /\ drv123'.result \in FourKinds
             /\ Cmds(drv123'.log) = <<>>
       /\ StickyLater' =>
             /\ Cmds(drv123'.log) = <<>>
             /\ drv123'.result \in {"none"} \cup FourKinds
             /\ "error" \in hwst']_vars

C31_Witness ==
    /\ StickyLater
    /\ call.op = "write_read"
    /\ drv123.result = "AdrAck"
    /\ Len(drv123.log) = 3

\* the read-direction commands of the log
ReadCmds == {q \in Positions("mcs_w") : ReadDirection(q)}

\* C32: when read or write_read returns an error from the busy poll after its
\* i-th read command (counted from 0), the first i slots of the buffer hold
\* the bytes read from the data register, in order, and the other slots what
\* they held before the call; with no read command issued (error in the
\* bus-busy poll or in the outgoing phase) the whole buffer is as before.
C32_BufferOnAbort ==
    LET c == Cardinality(ReadCmds)
        r == Cardinality(Positions("mdr_r"))
    IN  (Returned /\ op \in {"read", "write_read"} /\ result \in FourKinds) =>
            /\ r = IF c = 0 THEN 0 ELSE c - 1
            /\ \A j \in 1..Len(buffer) :
                  buffer[j] = IF j <= r THEN log[NthPos("mdr_r", j)].data ELSE 0

C32_Witness ==
    /\ Returned
    /\ op = "write_read"
    /\ result = "DataAck"
    /\ Len(bytes) = 1
    /\ buffer = <<34, 17, 0>>
    /\ Cardinality(ReadCmds) = 3

\* C33: for a bus frequency of at least 1 Hz and at most a twentieth of the
\* system clock, the computation of the timing value does not abort (no
\* division by zero, no wrap below zero), and the value written is
\* (sysclk div (20 * freq) - 1) mod 256 with the truncating division.
C33_TprInRange ==
    (freq >= 1 /\ 20 * freq <= sysclk) =>
        /\ cpc # "panic"
        /\ sysclk \div (20 * freq) >= 1
        /\ TimingWritten => tpr = (sysclk \div (20 * freq) - 1) % 256
        /\ ~TimingWritten => tpr = -1

C33_Witness ==
    /\ cpc = "built"
    /\ freq = 10000
    /\ sysclk = 80000000
    /\ tpr = 143

\* C34: wait returns Ok exactly when the raw time-out flag is set when it is
\* read, and then writes the interrupt-clear bit, which clears the flag, so
\* that the flag is set again only if the hardware timed out after that write;
\* with the flag clear wait returns WouldBlock and writes no register.
C34_WaitFlag ==
    [][/\ (tim.pc = "wait" /\ tim'.pc # "wait") =>
          (IF tim.ris
           THEN tim'.pc = "clear" /\ tim'.ret = "none" /\ tim'.log = <<>>
           ELSE /\ tim'.pc = "idle"
                /\ tim'.ret = "WouldBlock"
                /\ tim'.log = <<>>
                /\ tim'.ctl = tim.ctl
                /\ tim'.ris = tim.ris)
       /\ (tim.pc = "clear" /\ tim'.pc # "clear") =>
             /\ tim'.pc = "idle"
             /\ tim'.ret = "Ok"
             /\ tim'.log = <<[k |-> "icr_w", bits |-> {"tatocint"}]>>
             /\ ~tim'.ris
             /\ ~tim'.fired
       /\ (tim'.ret = "Ok" /\ tim.ret # "Ok") => tim.pc = "clear"
       /\ (tim'.ret = "WouldBlock" /\ tim.ret # "WouldBlock") => (tim.pc = "wait" /\ ~tim.ris)
       /\ (tim'.pc # "new" /\ tim'.ris) => tim'.fired]_vars

\* a wait that returned Ok and wrote the interrupt-clear bit
C34_Witness ==
    /\ tim.pc = "idle"
    /\ tim.ret = "Ok"
    /\ Len(tim.log) = 1

\* C35: start clears both enable bits before it writes the value and the
\* reload register, writes both with sysclk div timeout, sets the timer-A
\* enable bit only after both writes, never enables timer B, and stores the
\* requested timeout.
C35_StartOrder ==
    /\ tim.pc # "new" => "tben" \notin tim.ctl
    /\ tim.pc \in {"ticks", "tailr", "enable", "panic"} =>
          /\ "taen" \notin tim.ctl
          /\ tim.timeout = tim.req
          /\ Len(tim.log) >= 1
          /\ tim.log[1].k = "ctl_m"
          /\ tim.log[1].bits \cap {"taen", "tben"} = {}
    /\ tim.pc \in {"ticks", "panic"} => Len(tim.log) = 1
    /\ tim.pc = "panic" => tim.req = 0
    /\ tim.pc = "tailr" =>
          tim.log[2] = [k |-> "tav_w", bits |-> tim.sysclk \div tim.req] /\ Len(tim.log) = 2
    /\ tim.pc = "enable" =>
          /\ Len(tim.log) = 3
          /\ tim.log[2] = [k |-> "tav_w", bits |-> tim.sysclk \div tim.req]
          /\ tim.log[3] = [k |-> "tailr_w", bits |-> tim.sysclk \div tim.req]
    /\ (tim.pc = "idle" /\ Len(tim.log) = 4) =>
          /\ tim.timeout = tim.req
          /\ tim.log[1].k = "ctl_m"
          /\ tim.log[1].bits \cap {"taen", "tben"} = {}
          /\ tim.log[2] = [k |-> "tav_w", bits |-> tim.sysclk \div tim.req]
          /\ tim.log[3] = [k |-> "tailr_w", bits |-> tim.sysclk \div tim.req]
          /\ tim.log[4].k = "ctl_m"
          /\ "taen" \in tim.log[4].bits
          /\ "tben" \notin tim.log[4].bits
          /\ "taen" \in tim.ctl

\* a restart of a running timer at 1 kHz under an 80 MHz clock
C35_Witness ==
    /\ tim.pc = "idle"
    /\ Len(tim.log) = 4
    /\ tim.sysclk = 80000000
    /\ tim.timeout = 1000
    /\ tim.log[3].bits = 80000
    /\ tim.fired

\* the PLL fields freeze has programmed, and the frequencies in kHz
PllMint == sc.regs.pllfreq0.mint
PllN == sc.regs.pllfreq1.n
PllQ == sc.regs.pllfreq1.q
PllPsysdiv == sc.regs.rsclkcfg.psysdiv
ReportedKhz == sc.clocks.sysclk \div 1000
OscKhz == sc.clocks.osc \div 1000

\* C36: on tm4c129x, for every PLL configuration the sysclk that freeze
\* reports equals osc * MINT / ((N + 1) * (Q + 1)) / (PSYSDIV + 1) of the
\* values it programmed, for every crystal.
C36_PllFrequency ==
    (sc.pc = "returned" /\ sc.cfg.use = "UsePll") =>
        /\ sc.clocks.sysclk % 1000 = 0
        /\ sc.clocks.osc % 1000 = 0
        /\ ReportedKhz * (PllN + 1) * (PllQ + 1) * (PllPsysdiv + 1) = OscKhz * PllMint

\* C37: on tm4c123x, freeze with Main(crystal, UsePll(f)) ends with RCC
\* selecting the main oscillator, the main oscillator not disabled and the
\* crystal field equal to the given crystal.
C37_MainFieldsKept ==
    (sc.pc = "returned" /\ sc.cfg.osc = "Main" /\ sc.cfg.use = "UsePll") =>
        /\ sc.regs.rcc.oscsrc = "main"
        /\ sc.regs.rcc.moscdis = 0
        /\ sc.regs.rcc.xtal = sc.cfg.crystal

\* C38: on tm4c129x, freeze returns Clocks for every Oscillator value: no
\* configuration reaches an unreachable!() or unimplemented!() arm.
C38_AlwaysReturns ==
    sc.pc \notin {"unreachable", "unimplemented"}

====
